---------------------------- MODULE Spec2Model ----------------------------
(***************************************************************************)
(* State-machine model of the Renogy BT / ESPHome Bluetooth proxy service  *)
(* (renogy_bt_proxy.py, renogybt/BaseClient.py, renogybt/BLEManager.py,   *)
(* renogybt/esphome_api_server.py, renogybt/sensor_definitions.py,        *)
(* unified_proxy.py).                                                      *)
(*                                                                         *)
(* Specifications (all over the same variables; each moves its own part    *)
(* of the state and leaves the rest as initialised):                       *)
(*   Spec          ScannerSupervisor alone: pause / resume / kick / duty   *)
(*                 cycle / start retry / shutdown.                         *)
(*   SpecPoll      run_proxy's battery-client lifecycle: scheduled reader, *)
(*                 poll gating, continuous start, restart, stop path.      *)
(*   SpecPollFair  SpecPoll with the event loop's fairness: time passes    *)
(*                 and a ready reader task is run.                         *)
(*   SpecCycle     one Modbus cycle of BaseClient in its executor thread,  *)
(*                 the AirtimeScheduler and the supervisor on the main     *)
(*                 loop.                                                   *)
(*   SpecAdv       ESPHome API sessions, the advertisement path and the    *)
(*                 server's stop.                                          *)
(*   SpecSensors   sensor entities and sensor states on the API sessions,  *)
(*                 for renogy_bt_proxy.py and for unified_proxy.py.        *)
(*   SpecForward   the advertisement path of SpecAdv alone.                 *)
(*   SpecCodec     the native-API framing: one frame received in TCP       *)
(*                 segments by data_received.                              *)
(*   SpecRead      BaseClient's request / notification / timeout           *)
(*                 conversation with the peripheral.                       *)
(*   SpecRestart   the exits of successive battery clients, the done       *)
(*                 callback and the restart task with its escalation.      *)
(***************************************************************************)
EXTENDS Integers, Sequences, FiniteSets, TLC

\* ------------------------------------------------------------------------
\* Bounds of the model (not program constants)
\* ------------------------------------------------------------------------

\* Cap on the number of outstanding pause tokens explored.
MaxTokens == 3

\* renogy_read_interval and poll_cycle_timeout, in clock ticks of the model.
IntervalTicks == 2
TimeoutTicks == 2

\* Modbus cycles run and register sections read per cycle in SpecCycle.
MaxCycles == 1
MaxSections == 2

\* API client connections accepted in SpecAdv and SpecSensors.
MaxSessions == 2

\* Sensor values a reading may carry: 1..MaxValue.
MaxValue == 2

\* Callbacks the client thread may leave waiting before an unknown response
\* is delivered once more.
MaxQueue == 3

\* ------------------------------------------------------------------------
\* State
\* ------------------------------------------------------------------------
VARIABLES
    \* ---- ScannerSupervisor
    sup,        \* ScannerSupervisor fields: _running, _pause_tokens, _shutdown, _retry_handle
    dutyTask,   \* position of ScannerSupervisor._run_duty_cycle ("none" when no task)
    dutyOn,     \* duty_cycle_enabled (active_time > 0 and idle_time > 0), fixed by configuration
    shutPc,     \* position of ScannerSupervisor.shutdown(): "idle", "begun", "done"
    started,    \* ScannerSupervisor.start() has run
    lastOp,     \* history: the last supervisor operation and what it asked of the scanner
    stopFault,  \* history: scanner.stop() has raised an error the supervisor re-raises
    startFault, \* history: scanner.start() has answered not-ready or raised an error
    fifo,       \* history: progress of the scenario pause(A); pause(B); resume(A); resume(B)
    \* ---- run_proxy: battery client and poll scheduling
    renogy_poll_mode,       \* "continuous" or "scheduled", fixed by configuration
    poll_after_proxy_cycle, \* configuration flag; the airtime scheduler exists
    battery_client,         \* a battery client object exists (not None)
    battery_future,         \* "none", "pending" (executor thread running), "done"
    battery_stopping,
    stop_event,
    poll_cycle_event,
    consecutive_timeouts,   \* saturates at 3, the escalation threshold
    lastError,              \* last_error handed to the restart task: "none", "read_timeout", "other"
    activeRuns,             \* executor threads inside run_client()
    doneCb,                 \* _battery_done_callback scheduled: "none", "result", "cancelled"
    readerPc,               \* position of scheduled_renogy_reader
    restartPc,              \* position of the _restart_battery_client task
    mainPc,                 \* position of run_proxy itself
    sinceRead,              \* ticks since last_renogy_read_time, saturating at IntervalTicks
    waited,                 \* ticks spent in wait_for(poll_cycle_event.wait())
    sinceSkip,              \* history: ticks since the last skipped fire, saturating at IntervalTicks
    evBy,                   \* history: who set poll_cycle_event since it was last cleared
    gate,                   \* history: how the reader last passed the proxy-cycle gate
    pollOp,                 \* history: the reader's last step: "start", "skip" or "other"
    lastPoll,               \* history: gate and skip count of the last cycle start
    skips,                  \* history: skipped fires since the last start, saturating at 2
    \* ---- BaseClient cycle and AirtimeScheduler
    phase,          \* the client thread: "idle", "discover", "connect", "read", "done"
    section,        \* BaseClient.section_index
    cycles,         \* cycles begun
    queue,          \* callbacks waiting on the main loop, in call_soon order
    resume_handle,  \* AirtimeScheduler._resume_handle is armed
    window_handle,  \* AirtimeScheduler._window_handle is armed
    prompt,         \* history: the main loop had run every callback whenever the client moved on
    \* ---- ESPHome API server
    proto,                       \* per connection: ESPHomeAPIProtocol fields
    send_advertisement_callback, \* run_proxy's nonlocal: 0 (None) or the owning session
    wire,                        \* frames the last step wrote to each session's transport
    advEvent,                    \* history: what the last step of the server was
    advName,                     \* history: device.name of the advertisement the last step handled
    advSession,                  \* history: the session the last step served, 0 if none
    serverPc,                    \* ESPHomeAPIServer: "listening", "wait_closed", "stopped"
    \* ---- sensor entities and states
    owner,           \* the program that runs the server
    sensor_entities, \* ESPHomeAPIServer._sensor_entities, in dictionary order
    created,         \* history: every entity key with the key it was created with
    battery_map,     \* on_data_received: the devices read since the last combined reading
    published,       \* history: the state last sent for each key
    \* ---- native-API framing on one connection
    frame,           \* the message the peer sends: msg_type and payload
    inbound,         \* bytes of the encoded frame that have not arrived yet
    buffer,          \* ESPHomeAPIProtocol._buffer (<<>> for None)
    packets,         \* history: what data_received handed to _process_packet
    codecTransport,  \* "open", or "closing" once data_received closed the transport
    segments,        \* history: calls of data_received so far, saturating at 2
    \* ---- BaseClient's conversation with the peripheral
    readCfg,         \* configuration: number of device ids, scheduled_mode, enable_polling
    rc,              \* BaseClient fields, its loop, and the read_section calls that are due
    outstanding,     \* requests written to the peripheral and not answered
    readEvent,       \* history: the last step of the conversation
    \* ---- restart escalation
    timeoutRun,      \* history: client exits in a row with last_error "read_timeout", saturating at 3
    escalated,       \* history: the restart after the last exit asked for a power cycle
    \* ---- scanner health monitor
    healthCfg,       \* configuration: health_reset_adapter, health_reset_limit
    warnings,        \* monitor_scanner_health's local warnings
    resets,          \* monitor_scanner_health's local resets
    advGap,          \* ticks since last_adv_timestamp, saturating above the threshold
    healthPc,        \* monitor_scanner_health: "sleep" or "power_cycle"
    healthEvent,     \* history: what the last check of the monitor saw and asked for
    \* ---- the resume window and the gated poll, in seconds
    client,          \* the Modbus client: "idle", "started", "busy", "finished"
    sinceMark,       \* loop.time() - last_proxy_cycle_time, saturating
    windowAge,       \* time since the window timer was armed, saturating
    dwellLeft,       \* what is left of the reader's dwell sleep
    windowDone       \* history: the window armed by the last _do_resume ran to its end

supRest == <<dutyTask, dutyOn, shutPc, started, lastOp, stopFault, startFault, fifo>>
supVars == <<sup, supRest>>

pollRest == <<renogy_poll_mode, poll_after_proxy_cycle, battery_client, battery_future,
              battery_stopping, stop_event, consecutive_timeouts, lastError, activeRuns,
              doneCb, readerPc, restartPc, mainPc, sinceRead, waited, evBy, gate,
              pollOp, lastPoll, skips, sinceSkip>>
pollVars == <<poll_cycle_event, pollRest>>

cycVars == <<phase, section, cycles, queue, resume_handle, window_handle, prompt>>

advVars == <<proto, send_advertisement_callback, wire, advEvent, advName, advSession, serverPc>>

senVars == <<owner, sensor_entities, created, battery_map, published>>

codecVars == <<frame, inbound, buffer, packets, codecTransport, segments>>

readVars == <<readCfg, rc, outstanding, readEvent>>

escVars == <<timeoutRun, escalated>>

healthVars == <<healthCfg, warnings, resets, advGap, healthPc, healthEvent>>

winVars == <<client, sinceMark, windowAge, dwellLeft, windowDone>>

vars == <<supVars, pollVars, cycVars, advVars, senVars, codecVars, readVars, escVars, healthVars, winVars>>

\* What each part of the program leaves alone.
SupFrame == UNCHANGED <<pollVars, cycVars, advVars, senVars, codecVars, readVars, escVars, healthVars, winVars>>
PollFrame == UNCHANGED <<supVars, cycVars, advVars, senVars, codecVars, readVars, escVars, healthVars, winVars>>
CycleFrame == UNCHANGED <<supRest, pollRest, advVars, senVars, codecVars, readVars, escVars, healthVars, winVars>>
AdvFrame == UNCHANGED <<supVars, pollVars, cycVars, senVars, codecVars, readVars, escVars, healthVars, winVars>>
CodecFrame == UNCHANGED <<supVars, pollVars, cycVars, advVars, senVars, readVars, escVars, healthVars, winVars>>

Min(a, b) == IF a < b THEN a ELSE b

\* ------------------------------------------------------------------------
\* BleakScanner as the supervisor sees it
\* ------------------------------------------------------------------------

\* Results of scanner.start(): success, a BleakError that _is_in_progress_error
\* accepts, one that _is_not_ready_error accepts, any other BleakError.
StartOutcomes == {"ok", "in_progress", "not_ready", "error"}

\* Results of scanner.stop(): success, an in-progress BleakError, any other BleakError.
StopOutcomes == {"ok", "in_progress", "error"}

\* Reasons handed to pause()/resume(); the supervisor only logs them.
Reasons == {"A", "B", "other"}

\* ------------------------------------------------------------------------
\* ScannerSupervisor
\* ------------------------------------------------------------------------

SupervisorInit ==
    [running |-> FALSE, pause_tokens |-> 0, shutdown |-> FALSE, retry_handle |-> FALSE]

CancelStartRetry(s) == [s EXCEPT !.retry_handle = FALSE]

\* Variant of ScheduleStartRetry: a not-ready start arms no timer.
ScheduleStartRetryNever(s) == s

ScheduleStartRetry(s) ==
    IF s.shutdown THEN s ELSE [CancelStartRetry(s) EXCEPT !.retry_handle = TRUE]

\* Variant of StartAttempted: the start guard without the shutdown test.
StartAttemptedNoShutdown(s) == ~(s.running \/ s.pause_tokens > 0)

\* Does _set_running_locked(target) reach the scanner call?
StartAttempted(s) == ~(s.running \/ s.shutdown \/ s.pause_tokens > 0)
StopAttempted(s) == s.running

\* _set_running_locked(True, ...) with scanner.start() answering `out`.
SetRunningTrue(s, out) ==
    IF ~StartAttempted(s) THEN s
    ELSE CASE out = "in_progress" -> [s EXCEPT !.running = TRUE]
           [] out = "not_ready"   -> ScheduleStartRetry(s)
           [] out = "error"       -> s
           [] OTHER               -> CancelStartRetry([s EXCEPT !.running = TRUE])

\* _set_running_locked(False, ...) with scanner.stop() answering `out`.
SetRunningFalse(s, out) ==
    IF ~StopAttempted(s) THEN s
    ELSE IF out = "error" THEN s
         ELSE CancelStartRetry([s EXCEPT !.running = FALSE])

\* The call raised (the BleakError is re-raised to the caller).
StopRaised(s, out) == StopAttempted(s) /\ out = "error"
StartRaised(s, out) == StartAttempted(s) /\ out = "error"

\* What the operation asked of the scanner, for the history variable.
StopNote(s, out) == IF StopAttempted(s) THEN out ELSE "skipped"
StartNote(s, out) == IF StartAttempted(s) THEN out ELSE "skipped"

\* Variant of PauseStopsAt: the scanner is stopped on the second token only.
PauseStopsAtSecond(tokens) == tokens = 2

\* pause(): the token is taken first, the scanner is stopped on the first token.
PauseStopsAt(tokens) == tokens = 1

\* Variant of PauseEffect: pause as a flag, a second pause takes no further token.
PauseEffectFlag(s, out) ==
    IF s.pause_tokens > 0 THEN s
    ELSE SetRunningFalse([s EXCEPT !.pause_tokens = 1], out)

PauseEffect(s, out) ==
    LET t == [s EXCEPT !.pause_tokens = s.pause_tokens + 1]
    IN  IF PauseStopsAt(t.pause_tokens) THEN SetRunningFalse(t, out) ELSE t

PauseNote(s, out) ==
    LET t == [s EXCEPT !.pause_tokens = s.pause_tokens + 1]
    IN  IF PauseStopsAt(t.pause_tokens) THEN StopNote(t, out) ELSE "skipped"

\* Variant of ResumeStartsAt: the restart is tied to the last but one token.
ResumeStartsAtOne(tokens) == tokens = 1

\* resume(): skipped when no token is outstanding; restart when the last one is returned.
ResumeStartsAt(tokens) == tokens = 0

\* Variant of ResumeEffect: a resume that takes a token without looking.
ResumeEffectUnchecked(s, out) ==
    LET t == [s EXCEPT !.pause_tokens = s.pause_tokens - 1]
    IN  IF ResumeStartsAt(t.pause_tokens) THEN SetRunningTrue(t, out) ELSE t

ResumeEffect(s, out) ==
    IF s.pause_tokens = 0 THEN s
    ELSE LET t == [s EXCEPT !.pause_tokens = s.pause_tokens - 1]
         IN  IF ResumeStartsAt(t.pause_tokens) THEN SetRunningTrue(t, out) ELSE t

ResumeNote(s, out) ==
    IF s.pause_tokens = 0 THEN "skipped"
    ELSE LET t == [s EXCEPT !.pause_tokens = s.pause_tokens - 1]
         IN  IF ResumeStartsAt(t.pause_tokens) THEN StartNote(t, out) ELSE "skipped"

\* _kick(): stop then start under one lock hold; a raising stop ends the kick.
KickEffect(s, outStop, outStart) ==
    IF StopRaised(s, outStop) THEN s
    ELSE SetRunningTrue(SetRunningFalse(s, outStop), outStart)

KickStartNote(s, outStop, outStart) ==
    IF StopRaised(s, outStop) THEN "skipped"
    ELSE StartNote(SetRunningFalse(s, outStop), outStart)

\* History record: the operation, the token count it found, and what it asked
\* of scanner.stop() / scanner.start() ("skipped" when the call was not made).
Note(op, stop, start) ==
    [op |-> op, was |-> sup.pause_tokens, stop |-> stop, start |-> start]

\* The history flag for scanner.start(), from the record the step writes.
StartFaultNext == startFault \/ lastOp'.start \in {"not_ready", "error"}

\* Progress of the scenario pause(A); pause(B); resume(A); resume(B) started
\* from running = true, tokens = 0.  Kick, duty cycle and retry timer may
\* interleave; any other pause/resume or a shutdown step abandons the scenario.
FifoNext(op, reason, s) ==
    CASE fifo = 0 /\ op = "pause" /\ reason = "A"
              /\ s.running /\ s.pause_tokens = 0 /\ ~s.shutdown -> 1
      [] fifo = 1 /\ op = "pause" /\ reason = "B" -> 2
      [] fifo = 2 /\ op = "resume" /\ reason = "A" -> 3
      [] fifo = 3 /\ op = "resume" /\ reason = "B" -> 4
      [] fifo \in 1..3 /\ op \in {"kick", "duty", "retry", "ensure"} -> fifo
      [] OTHER -> 0

\* ---- actions of the supervisor -----------------------------------------

\* start(): _ensure_running("initial start"), then the duty-cycle task is created.
Start(out) ==
    /\ ~started /\ shutPc = "idle"
    /\ started' = TRUE
    /\ sup' = SetRunningTrue(sup, out)
    /\ dutyTask' = IF dutyOn /\ ~StartRaised(sup, out) THEN "active" ELSE "none"
    /\ lastOp' = Note("start", "skipped", StartNote(sup, out))
    /\ startFault' = StartFaultNext
    /\ fifo' = FifoNext("ensure", "other", sup)
    /\ UNCHANGED <<dutyOn, shutPc, stopFault>>
    /\ SupFrame

\* _ensure_running(reason) called directly (run_proxy's explicit initial start).
EnsureRunning(out) ==
    /\ started
    /\ sup' = SetRunningTrue(sup, out)
    /\ lastOp' = Note("ensure", "skipped", StartNote(sup, out))
    /\ startFault' = StartFaultNext
    /\ fifo' = FifoNext("ensure", "other", sup)
    /\ UNCHANGED <<dutyTask, dutyOn, shutPc, started, stopFault>>
    /\ SupFrame

Pause(reason, out) ==
    /\ sup.pause_tokens < MaxTokens
    /\ sup' = PauseEffect(sup, out)
    /\ lastOp' = Note("pause", PauseNote(sup, out), "skipped")
    /\ stopFault' = (stopFault \/ PauseNote(sup, out) = "error")
    /\ startFault' = StartFaultNext
    /\ fifo' = FifoNext("pause", reason, sup)
    /\ UNCHANGED <<dutyTask, dutyOn, shutPc, started>>
    /\ SupFrame

Resume(reason, out) ==
    /\ sup' = ResumeEffect(sup, out)
    /\ lastOp' = Note("resume", "skipped", ResumeNote(sup, out))
    /\ startFault' = StartFaultNext
    /\ fifo' = FifoNext("resume", reason, sup)
    /\ UNCHANGED <<dutyTask, dutyOn, shutPc, started, stopFault>>
    /\ SupFrame

Kick(outStop, outStart) ==
    /\ sup' = KickEffect(sup, outStop, outStart)
    /\ lastOp' = Note("kick", StopNote(sup, outStop), KickStartNote(sup, outStop, outStart))
    /\ stopFault' = (stopFault \/ StopRaised(sup, outStop))
    /\ startFault' = StartFaultNext
    /\ fifo' = FifoNext("kick", "other", sup)
    /\ UNCHANGED <<dutyTask, dutyOn, shutPc, started>>
    /\ SupFrame

\* _run_duty_cycle(): after the active time, _set_running(False, "duty-cycle pause").
\* An error raised by the scanner ends the task (only CancelledError is caught).
DutyPause(out) ==
    /\ dutyTask = "active"
    /\ IF sup.shutdown
       THEN /\ dutyTask' = "none"
            /\ lastOp' = Note("duty_exit", "skipped", "skipped")
            /\ UNCHANGED <<sup, stopFault, startFault, fifo>>
       ELSE /\ sup' = SetRunningFalse(sup, out)
            /\ dutyTask' = IF StopRaised(sup, out) THEN "none" ELSE "idle"
            /\ lastOp' = Note("duty", StopNote(sup, out), "skipped")
            /\ stopFault' = (stopFault \/ StopRaised(sup, out))
            /\ startFault' = StartFaultNext
    /\ fifo' = FifoNext("duty", "other", sup)
    /\ UNCHANGED <<dutyOn, shutPc, started>>
    /\ SupFrame

\* _run_duty_cycle(): after the idle time, _ensure_running("duty-cycle resume").
DutyResume(out) ==
    /\ dutyTask = "idle"
    /\ IF sup.shutdown
       THEN /\ dutyTask' = "none"
            /\ lastOp' = Note("duty_exit", "skipped", "skipped")
            /\ UNCHANGED <<sup, startFault, fifo>>
       ELSE /\ sup' = SetRunningTrue(sup, out)
            /\ dutyTask' = IF StartRaised(sup, out) THEN "none" ELSE "active"
            /\ lastOp' = Note("duty", "skipped", StartNote(sup, out))
            /\ startFault' = StartFaultNext
    /\ fifo' = FifoNext("duty", "other", sup)
    /\ UNCHANGED <<dutyOn, shutPc, started, stopFault>>
    /\ SupFrame

\* The start-retry timer fires: _retry() clears the handle and, unless shut
\* down, runs _ensure_running.
RetryFire(out) ==
    /\ sup.retry_handle
    /\ LET s == [sup EXCEPT !.retry_handle = FALSE]
       IN  /\ sup' = IF s.shutdown THEN s ELSE SetRunningTrue(s, out)
           /\ lastOp' = Note("retry", "skipped",
                             IF s.shutdown THEN "skipped" ELSE StartNote(s, out))
    /\ startFault' = StartFaultNext
    /\ fifo' = FifoNext("retry", "other", sup)
    /\ UNCHANGED <<dutyTask, dutyOn, shutPc, started, stopFault>>
    /\ SupFrame

\* shutdown(), up to the lock: the flag is set, the retry timer and the duty
\* task are cancelled.
ShutdownBegin ==
    /\ shutPc = "idle"
    /\ sup' = CancelStartRetry([sup EXCEPT !.shutdown = TRUE])
    /\ dutyTask' = "none"
    /\ shutPc' = "begun"
    /\ lastOp' = Note("shutdown_begin", "skipped", "skipped")
    /\ fifo' = 0
    /\ UNCHANGED startFault
    /\ UNCHANGED <<dutyOn, started, stopFault>>
    /\ SupFrame

\* shutdown(), under the lock: _set_running_locked(False, "shutdown").
ShutdownStop(out) ==
    /\ shutPc = "begun"
    /\ sup' = SetRunningFalse(sup, out)
    /\ shutPc' = "done"
    /\ lastOp' = Note("shutdown", StopNote(sup, out), "skipped")
    /\ stopFault' = (stopFault \/ StopRaised(sup, out))
    /\ fifo' = 0
    /\ UNCHANGED startFault
    /\ UNCHANGED <<dutyTask, dutyOn, started>>
    /\ SupFrame

\* ------------------------------------------------------------------------
\* run_proxy: battery client lifecycle and poll scheduling
\* ------------------------------------------------------------------------

PollModes == {"continuous", "scheduled"}

\* last_error of a client whose executor thread has returned.
ClientErrors == {"none", "read_timeout", "other"}

\* timeout_error of _restart_battery_client.
TimeoutError(client_error) == client_error = "read_timeout"

\* Variant of FutureBusy: the busy test never finds a running client.
FutureBusyNever(f) == FALSE

\* "battery_future and not battery_future.done()"
FutureBusy(f) == f = "pending"

\* Variant of IntervalElapsed: the minimum interval is never waited for.
IntervalAlways(since) == TRUE

\* _await_poll_window: elapsed_since_read has reached min_interval.
IntervalElapsed(since) == since >= IntervalTicks

\* Variant of WaitExpired: the wait for the proxy cycle has no timeout.
WaitNeverExpired(w) == FALSE

\* wait_for(poll_cycle_event.wait(), timeout=poll_cycle_timeout) has run out.
WaitExpired(w) == w >= TimeoutTicks

\* The state run_proxy sets up before its first await, for one configuration.
PollConfigured(mode, gated) ==
    /\ renogy_poll_mode = mode
    /\ poll_after_proxy_cycle = gated
    /\ battery_client = FALSE
    /\ battery_future = "none"
    /\ battery_stopping = FALSE
    /\ stop_event = FALSE
    /\ poll_cycle_event = FALSE
    /\ consecutive_timeouts = 0
    /\ lastError = "none"
    /\ activeRuns = 0
    /\ doneCb = "none"
    /\ readerPc = IF mode = "scheduled" THEN "created" ELSE "none"
    /\ restartPc = "none"
    /\ mainPc = "startup"
    /\ sinceRead = IntervalTicks
    /\ waited = 0
    /\ evBy = {}
    /\ gate = "none"
    /\ pollOp = "none"
    /\ lastPoll = [gate |-> "none", skips |-> 0]
    /\ skips = 0
    /\ sinceSkip = IntervalTicks

PollIdle == PollConfigured("scheduled", TRUE)

PollInit == \E mode \in PollModes, gated \in BOOLEAN : PollConfigured(mode, gated)

pollConfig == <<renogy_poll_mode, poll_after_proxy_cycle>>
gateVars == <<poll_cycle_event, evBy, gate, waited>>
clientVars == <<battery_client, battery_future, battery_stopping, activeRuns>>
restartVars == <<consecutive_timeouts, lastError, doneCb, restartPc>>
pollHist == <<pollOp, lastPoll, skips, sinceSkip>>

\* The strongest reason in a set of those that set poll_cycle_event.
Strongest(by) ==
    IF "coordinator" \in by THEN "coordinator"
    ELSE IF "startup" \in by THEN "startup"
    ELSE IF "timeout_mark" \in by THEN "timeout_mark"
    ELSE "none"

\* The reader at the top of its loop: the stop test, then _await_poll_window
\* up to its first await.  With the flag off there is no gate; with the event
\* set it is cleared and the gate is passed; otherwise the reader waits.
LoopTop(stop, ev) ==
    IF stop THEN [pc |-> "ended", ev |-> ev]
    ELSE IF ~poll_after_proxy_cycle THEN [pc |-> "interval", ev |-> ev]
    ELSE IF ev THEN [pc |-> "dwell", ev |-> FALSE]
    ELSE [pc |-> "wait", ev |-> FALSE]

EnterWindow ==
    LET t == LoopTop(stop_event, poll_cycle_event)
    IN  /\ readerPc' = t.pc
        /\ poll_cycle_event' = t.ev
        /\ gate' = IF t.pc = "dwell" THEN Strongest(evBy) ELSE gate
        /\ evBy' = IF t.pc = "dwell" THEN {} ELSE evBy
        /\ waited' = 0

\* start_battery_client past its guard: run_in_executor(run_client),
\* last_renogy_read_time = now, the done callback is attached.
Launch ==
    /\ battery_future' = "pending"
    /\ activeRuns' = activeRuns + 1
    /\ sinceRead' = 0

\* ---- the scheduled reader ------------------------------------------------

\* The task's first run.
ReaderBegin ==
    /\ readerPc = "created"
    /\ EnterWindow
    /\ pollOp' = "other"
    /\ UNCHANGED <<pollConfig, clientVars, restartVars, lastPoll, skips, sinceSkip>>
    /\ UNCHANGED <<stop_event, mainPc, sinceRead>>
    /\ PollFrame

\* AirtimeScheduler._do_resume calls its cycle callback, _mark_proxy_cycle.
CoordinatorSignal ==
    /\ poll_after_proxy_cycle
    /\ mainPc # "exited"
    /\ "coordinator" \notin evBy
    /\ poll_cycle_event' = TRUE
    /\ evBy' = evBy \cup {"coordinator"}
    /\ UNCHANGED <<pollConfig, clientVars, restartVars, pollHist>>
    /\ UNCHANGED <<stop_event, mainPc, sinceRead, readerPc, gate, waited>>
    /\ PollFrame

\* wait_for returns because the event was set: it is cleared.
ReaderWaitSignal ==
    /\ readerPc = "wait"
    /\ poll_cycle_event
    /\ poll_cycle_event' = FALSE
    /\ gate' = Strongest(evBy)
    /\ evBy' = {}
    /\ readerPc' = "dwell"
    /\ pollOp' = "other"
    /\ UNCHANGED <<pollConfig, clientVars, restartVars, lastPoll, skips, sinceSkip>>
    /\ UNCHANGED <<stop_event, mainPc, sinceRead, waited>>
    /\ PollFrame

\* wait_for raises TimeoutError: the reader calls _mark_proxy_cycle itself
\* and goes on.
ReaderWaitTimeout ==
    /\ readerPc = "wait"
    /\ ~poll_cycle_event
    /\ WaitExpired(waited)
    /\ poll_cycle_event' = TRUE
    /\ gate' = "timeout"
    /\ evBy' = {"timeout_mark"}
    /\ readerPc' = "dwell"
    /\ pollOp' = "other"
    /\ UNCHANGED <<pollConfig, clientVars, restartVars, lastPoll, skips, sinceSkip>>
    /\ UNCHANGED <<stop_event, mainPc, sinceRead, waited>>
    /\ PollFrame

\* The dwell sleep is over; the minimum-interval sleep begins.
ReaderDwellDone ==
    /\ readerPc = "dwell"
    /\ readerPc' = "interval"
    /\ pollOp' = "other"
    /\ UNCHANGED <<pollConfig, clientVars, restartVars, gateVars, lastPoll, skips, sinceSkip>>
    /\ UNCHANGED <<stop_event, mainPc, sinceRead>>
    /\ PollFrame

\* _await_poll_window has returned: the reader stops, skips the fire because
\* the previous read is still running, or calls start_battery_client.  `reset`
\* says whether start_battery_client awaits an adapter reset before launching.
ReaderFire(reset) ==
    /\ readerPc = "interval"
    /\ IntervalElapsed(sinceRead)
    /\ IF stop_event
       THEN /\ readerPc' = "ended"
            /\ pollOp' = "other"
            /\ UNCHANGED <<clientVars, gateVars, lastPoll, skips, sinceSkip, sinceRead>>
       ELSE IF FutureBusy(battery_future)
       THEN /\ readerPc' = "skipsleep"
            /\ pollOp' = "skip"
            /\ skips' = Min(skips + 1, 2)
            /\ sinceSkip' = 0
            /\ UNCHANGED <<clientVars, gateVars, lastPoll, sinceRead>>
       ELSE /\ battery_stopping' = FALSE
            /\ battery_client' = TRUE
            /\ pollOp' = "start"
            /\ lastPoll' = [gate |-> gate, skips |-> skips]
            /\ skips' = 0
            /\ UNCHANGED sinceSkip
            /\ IF reset
               THEN /\ readerPc' = "resetting"
                    /\ UNCHANGED <<battery_future, activeRuns, sinceRead, gateVars>>
               ELSE Launch /\ EnterWindow
    /\ UNCHANGED <<pollConfig, restartVars, stop_event, mainPc>>
    /\ PollFrame

\* The adapter reset inside start_battery_client is over: the client is launched.
ReaderResetDone ==
    /\ readerPc = "resetting"
    /\ Launch
    /\ EnterWindow
    /\ pollOp' = "other"
    /\ UNCHANGED <<battery_client, battery_stopping>>
    /\ UNCHANGED <<pollConfig, restartVars, lastPoll, skips, sinceSkip, stop_event, mainPc>>
    /\ PollFrame

\* The one-second sleep after a skipped fire is over.
ReaderSkipDone ==
    /\ readerPc = "skipsleep"
    /\ EnterWindow
    /\ pollOp' = "other"
    /\ UNCHANGED <<pollConfig, clientVars, restartVars, lastPoll, skips, sinceSkip>>
    /\ UNCHANGED <<stop_event, mainPc, sinceRead>>
    /\ PollFrame

\* One tick of loop.time(), as the reader observes it.
Tick ==
    /\ renogy_poll_mode = "scheduled"
    /\ mainPc # "exited"
    /\ \/ sinceRead < IntervalTicks
       \/ sinceSkip < IntervalTicks
       \/ readerPc = "wait" /\ waited < TimeoutTicks
    /\ sinceRead' = Min(sinceRead + 1, IntervalTicks)
    /\ sinceSkip' = Min(sinceSkip + 1, IntervalTicks)
    /\ waited' = IF readerPc = "wait" THEN Min(waited + 1, TimeoutTicks) ELSE waited
    /\ UNCHANGED <<pollConfig, clientVars, restartVars, pollOp, lastPoll, skips>>
    /\ UNCHANGED <<stop_event, mainPc, readerPc, poll_cycle_event, evBy, gate>>
    /\ PollFrame

\* ---- run_proxy itself ----------------------------------------------------

\* The end of start-up: the initial proxy-cycle marker, then, in continuous
\* mode, start_battery_client.
MainStartup ==
    /\ mainPc = "startup"
    /\ mainPc' = "running"
    /\ poll_cycle_event' = (poll_cycle_event \/ poll_after_proxy_cycle)
    /\ evBy' = IF poll_after_proxy_cycle THEN evBy \cup {"startup"} ELSE evBy
    /\ IF renogy_poll_mode = "continuous" /\ ~FutureBusy(battery_future)
       THEN /\ battery_stopping' = FALSE
            /\ battery_client' = TRUE
            /\ Launch
       ELSE UNCHANGED <<clientVars, sinceRead>>
    /\ UNCHANGED <<pollConfig, restartVars, pollHist, stop_event, readerPc, gate, waited>>
    /\ PollFrame

\* _handle_signal: SIGINT or SIGTERM.
SignalStop ==
    /\ mainPc # "exited"
    /\ ~stop_event
    /\ stop_event' = TRUE
    /\ UNCHANGED <<pollConfig, clientVars, restartVars, gateVars, pollHist>>
    /\ UNCHANGED <<mainPc, readerPc, sinceRead>>
    /\ PollFrame

\* "await stop_event.wait()" ends, by the event or by cancellation of
\* run_proxy: the finally block cancels the reader task and awaits it.
MainFinally ==
    /\ mainPc = "running"
    /\ mainPc' = "teardown"
    /\ readerPc' = IF readerPc = "none" THEN "none" ELSE "ended"
    /\ UNCHANGED <<pollConfig, clientVars, restartVars, gateVars, pollHist>>
    /\ UNCHANGED <<stop_event, sinceRead>>
    /\ PollFrame

\* stop_battery_client, up to its await.  With no running future the wait
\* returns at once and the function runs to its end.
StopBatteryClient ==
    /\ mainPc = "teardown"
    /\ IF ~battery_client
       THEN /\ mainPc' = "exited"
            /\ UNCHANGED <<battery_client, battery_future, battery_stopping>>
       ELSE IF FutureBusy(battery_future)
       THEN /\ mainPc' = "stopwait"
            /\ battery_stopping' = TRUE
            /\ UNCHANGED <<battery_client, battery_future>>
       ELSE /\ mainPc' = "exited"
            /\ battery_client' = FALSE
            /\ battery_future' = "none"
            /\ battery_stopping' = FALSE
    /\ UNCHANGED <<pollConfig, restartVars, gateVars, pollHist>>
    /\ UNCHANGED <<activeRuns, stop_event, readerPc, sinceRead>>
    /\ PollFrame

\* The awaited future completed within five seconds.
StopWaitDone ==
    /\ mainPc = "stopwait"
    /\ battery_future = "done"
    /\ doneCb = "none"
    /\ mainPc' = "exited"
    /\ battery_client' = FALSE
    /\ battery_future' = "none"
    /\ battery_stopping' = FALSE
    /\ UNCHANGED <<pollConfig, restartVars, gateVars, pollHist>>
    /\ UNCHANGED <<activeRuns, stop_event, readerPc, sinceRead>>
    /\ PollFrame

\* The five seconds ran out: battery_future.cancel(); the executor thread
\* goes on running.  The done callback of a cancelled future starts nothing.
StopWaitTimeout ==
    /\ mainPc = "stopwait"
    /\ battery_future = "pending"
    /\ mainPc' = "exited"
    /\ battery_client' = FALSE
    /\ battery_future' = "none"
    /\ battery_stopping' = FALSE
    /\ UNCHANGED <<pollConfig, restartVars, gateVars, pollHist>>
    /\ UNCHANGED <<activeRuns, stop_event, readerPc, sinceRead>>
    /\ PollFrame

\* ---- the battery client's executor thread and its restart ---------------

\* run_client() returns: the future completes and its done callback is
\* scheduled on the loop.
ClientExit ==
    /\ activeRuns > 0
    /\ activeRuns' = activeRuns - 1
    /\ IF battery_future = "pending" /\ mainPc # "exited"
       THEN /\ battery_future' = "done"
            /\ doneCb' = "result"
       ELSE UNCHANGED <<battery_future, doneCb>>
    /\ UNCHANGED <<pollConfig, gateVars, pollHist>>
    /\ UNCHANGED <<battery_client, battery_stopping, consecutive_timeouts, lastError, restartPc>>
    /\ UNCHANGED <<stop_event, mainPc, readerPc, sinceRead>>
    /\ PollFrame

\* _battery_done_callback: in scheduled mode it only logs; otherwise it
\* creates the _restart_battery_client task and hands it the client's
\* last_error, `err`.
BatteryDoneCallback(err) ==
    /\ doneCb = "result"
    /\ mainPc # "exited"
    /\ doneCb' = "none"
    /\ IF stop_event \/ battery_stopping \/ renogy_poll_mode = "scheduled"
       THEN UNCHANGED <<restartPc, lastError>>
       ELSE restartPc' = "queued" /\ lastError' = err
    /\ UNCHANGED <<pollConfig, clientVars, gateVars, pollHist>>
    /\ UNCHANGED <<consecutive_timeouts, stop_event, mainPc, readerPc, sinceRead>>
    /\ PollFrame

\* _restart_battery_client takes the lock, counts the timeout and goes to
\* sleep (cooldown, power cycle, settle delay).
RestartEnter ==
    /\ restartPc = "queued"
    /\ mainPc # "exited"
    /\ IF stop_event \/ battery_stopping
       THEN /\ restartPc' = "none"
            /\ UNCHANGED consecutive_timeouts
       ELSE /\ restartPc' = "sleeping"
            /\ consecutive_timeouts' =
                   IF TimeoutError(lastError) THEN Min(consecutive_timeouts + 1, 3) ELSE 0
    /\ UNCHANGED <<pollConfig, clientVars, gateVars, pollHist>>
    /\ UNCHANGED <<lastError, doneCb, stop_event, mainPc, readerPc, sinceRead>>
    /\ PollFrame

\* The sleeps are over: unless stopping, start_battery_client is called.
RestartWake(reset) ==
    /\ restartPc = "sleeping"
    /\ mainPc # "exited"
    /\ IF stop_event \/ battery_stopping \/ FutureBusy(battery_future)
       THEN /\ restartPc' = "none"
            /\ UNCHANGED <<clientVars, sinceRead>>
       ELSE /\ battery_stopping' = FALSE
            /\ battery_client' = TRUE
            /\ IF reset
               THEN /\ restartPc' = "resetting"
                    /\ UNCHANGED <<battery_future, activeRuns, sinceRead>>
               ELSE /\ restartPc' = "none"
                    /\ Launch
    /\ UNCHANGED <<pollConfig, gateVars, pollHist>>
    /\ UNCHANGED <<consecutive_timeouts, lastError, doneCb, stop_event, mainPc, readerPc>>
    /\ PollFrame

RestartResetDone ==
    /\ restartPc = "resetting"
    /\ mainPc # "exited"
    /\ restartPc' = "none"
    /\ Launch
    /\ UNCHANGED <<pollConfig, gateVars, pollHist>>
    /\ UNCHANGED <<battery_client, battery_stopping>>
    /\ UNCHANGED <<consecutive_timeouts, lastError, doneCb, stop_event, mainPc, readerPc>>
    /\ PollFrame

ReaderNext ==
    \/ ReaderBegin
    \/ ReaderWaitSignal
    \/ ReaderWaitTimeout
    \/ ReaderDwellDone
    \/ \E reset \in BOOLEAN : ReaderFire(reset)
    \/ ReaderResetDone
    \/ ReaderSkipDone

NextPoll ==
    \/ ReaderBegin
    \/ CoordinatorSignal
    \/ ReaderWaitSignal
    \/ ReaderWaitTimeout
    \/ ReaderDwellDone
    \/ \E reset \in BOOLEAN : ReaderFire(reset)
    \/ ReaderResetDone
    \/ ReaderSkipDone
    \/ Tick
    \/ MainStartup
    \/ SignalStop
    \/ MainFinally
    \/ StopBatteryClient
    \/ StopWaitDone
    \/ StopWaitTimeout
    \/ ClientExit
    \/ \E err \in ClientErrors : BatteryDoneCallback(err)
    \/ RestartEnter
    \/ \E reset \in BOOLEAN : RestartWake(reset)
    \/ RestartResetDone

\* ------------------------------------------------------------------------
\* BaseClient cycle (executor thread) and AirtimeScheduler (main loop)
\* ------------------------------------------------------------------------

\* Results of BLEManager.discover(): the target is among the devices found,
\* it is not, or every attempt came back empty (connect_fail_callback).
DiscoverOutcomes == {"found", "not_found", "exhausted"}

\* The operation byte of a notification: READ_SUCCESS, READ_ERROR, other.
Operations == {"success", "error", "unknown"}

\* Answers of the scanner in SpecCycle: it obeys, or reports the operation
\* as already in progress.
CycleOutcomes == {"ok", "in_progress"}

CycleIdle ==
    /\ phase = "idle"
    /\ section = 0
    /\ cycles = 0
    /\ queue = <<>>
    /\ resume_handle = FALSE
    /\ window_handle = FALSE
    /\ prompt = TRUE

\* handle_ble_activity(True, stage): AirtimeScheduler.pause hands _apply_pause
\* to the main loop with call_soon_threadsafe.
NotifyActive(q) == Append(q, "apply_pause")

\* handle_ble_activity(False, stage): AirtimeScheduler.resume_window hands
\* _schedule_resume to the main loop.
NotifyInactive(q) == Append(q, "schedule_resume")

\* ---- the client thread ---------------------------------------------------

\* BaseClient.connect begins: _notify_ble_activity(True, "discover").
CycleStart ==
    /\ phase = "idle"
    /\ cycles < MaxCycles
    /\ phase' = "discover"
    /\ cycles' = cycles + 1
    /\ section' = 0
    /\ queue' = NotifyActive(queue)
    /\ UNCHANGED <<sup, poll_cycle_event, resume_handle, window_handle>>
    /\ prompt' = (prompt /\ queue = <<>>)
    /\ CycleFrame

\* discover() returns: the finally block releases "discover"; with a device
\* found, "connect" is announced and BLEManager.connect begins.
DiscoverEnd(result) ==
    /\ phase = "discover"
    /\ CASE result = "found" ->
              /\ phase' = "connect"
              /\ queue' = NotifyActive(NotifyInactive(queue))
         [] result = "not_found" ->
              /\ phase' = "done"
              /\ queue' = NotifyInactive(queue)
         [] OTHER ->
              /\ phase' = "done"
              /\ queue' = NotifyInactive(NotifyInactive(queue))
    /\ UNCHANGED <<sup, poll_cycle_event, section, cycles, resume_handle, window_handle>>
    /\ prompt' = (prompt /\ queue = <<>>)
    /\ CycleFrame

\* BLEManager.connect returns: the finally block releases "connect"; when
\* connected, read_section sends the first request.
ConnectEnd(connected) ==
    /\ phase = "connect"
    /\ IF connected
       THEN /\ phase' = "read"
            /\ queue' = NotifyInactive(queue)
       ELSE /\ phase' = "done"
            /\ queue' = NotifyInactive(NotifyInactive(queue))
    /\ UNCHANGED <<sup, poll_cycle_event, section, cycles, resume_handle, window_handle>>
    /\ prompt' = (prompt /\ queue = <<>>)
    /\ CycleFrame

\* on_data_received: the read timeout is cancelled, "read" is released, and a
\* success or error response moves on to the next section; after the last
\* section the cycle is complete.  An unknown operation moves nothing on.
Notification(op) ==
    /\ phase = "read"
    /\ op = "unknown" => Len(queue) < MaxQueue
    /\ queue' = NotifyInactive(queue)
    /\ IF op = "unknown"
       THEN UNCHANGED <<phase, section>>
       ELSE IF section >= MaxSections - 1
       THEN phase' = "done" /\ section' = 0
       ELSE phase' = "read" /\ section' = section + 1
    /\ UNCHANGED <<sup, poll_cycle_event, cycles, resume_handle, window_handle>>
    /\ prompt' = (prompt /\ queue = <<>>)
    /\ CycleFrame

\* on_read_timeout: "read-timeout" is released and the client stops.
ReadTimeout ==
    /\ phase = "read"
    /\ phase' = "done"
    /\ queue' = NotifyInactive(queue)
    /\ UNCHANGED <<sup, poll_cycle_event, section, cycles, resume_handle, window_handle>>
    /\ prompt' = (prompt /\ queue = <<>>)
    /\ CycleFrame

\* The client's loop ends and run_client returns.
CycleEnd ==
    /\ phase = "done"
    /\ phase' = "idle"
    /\ UNCHANGED <<sup, poll_cycle_event, section, cycles, queue, resume_handle, window_handle>>
    /\ UNCHANGED prompt
    /\ CycleFrame

\* ---- the main loop -------------------------------------------------------

\* _apply_pause: the window timer is cancelled, a pending resume is kept, and
\* pause_from_thread submits supervisor.pause to the loop it is running on.
ApplyPause ==
    /\ queue # <<>> /\ Head(queue) = "apply_pause"
    /\ window_handle' = FALSE
    /\ queue' = Append(Tail(queue), "pause")
    /\ UNCHANGED <<sup, poll_cycle_event, phase, section, cycles, resume_handle>>
    /\ UNCHANGED prompt
    /\ CycleFrame

\* _schedule_resume: the window timer is cancelled; unless a resume is
\* already pending, the settle timer is armed.
ScheduleResume ==
    /\ queue # <<>> /\ Head(queue) = "schedule_resume"
    /\ window_handle' = FALSE
    /\ resume_handle' = TRUE
    /\ queue' = Tail(queue)
    /\ UNCHANGED <<sup, poll_cycle_event, phase, section, cycles>>
    /\ UNCHANGED prompt
    /\ CycleFrame

\* The submitted supervisor.pause coroutine runs.
PauseCoroutine(out) ==
    /\ queue # <<>> /\ Head(queue) = "pause"
    /\ sup' = PauseEffect(sup, out)
    /\ queue' = Tail(queue)
    /\ UNCHANGED <<poll_cycle_event, phase, section, cycles, resume_handle, window_handle>>
    /\ UNCHANGED prompt
    /\ CycleFrame

\* The submitted supervisor.resume coroutine runs.
ResumeCoroutine(out) ==
    /\ queue # <<>> /\ Head(queue) = "resume"
    /\ sup' = ResumeEffect(sup, out)
    /\ queue' = Tail(queue)
    /\ UNCHANGED <<poll_cycle_event, phase, section, cycles, resume_handle, window_handle>>
    /\ UNCHANGED prompt
    /\ CycleFrame

\* The settle timer fires, _do_resume: resume_from_thread submits
\* supervisor.resume, the cycle callback marks the proxy cycle, the window
\* timer is armed.
ResumeTimerFire ==
    /\ resume_handle
    /\ resume_handle' = FALSE
    /\ queue' = Append(queue, "resume")
    /\ poll_cycle_event' = (poll_cycle_event \/ poll_after_proxy_cycle)
    /\ window_handle' = TRUE
    /\ UNCHANGED <<sup, phase, section, cycles>>
    /\ UNCHANGED prompt
    /\ CycleFrame

\* The window timer fires, _pause_window: pause_from_thread("airtime-window").
WindowTimerFire ==
    /\ window_handle
    /\ window_handle' = FALSE
    /\ queue' = Append(queue, "pause")
    /\ UNCHANGED <<sup, poll_cycle_event, phase, section, cycles, resume_handle>>
    /\ UNCHANGED prompt
    /\ CycleFrame

NextCycle ==
    \/ CycleStart
    \/ \E result \in DiscoverOutcomes : DiscoverEnd(result)
    \/ \E connected \in BOOLEAN : ConnectEnd(connected)
    \/ \E op \in Operations : Notification(op)
    \/ ReadTimeout
    \/ CycleEnd
    \/ ApplyPause
    \/ ScheduleResume
    \/ \E out \in CycleOutcomes : PauseCoroutine(out)
    \/ \E out \in CycleOutcomes : ResumeCoroutine(out)
    \/ ResumeTimerFire
    \/ WindowTimerFire

\* ------------------------------------------------------------------------
\* ESPHome API server: sessions and BLE advertisements
\* ------------------------------------------------------------------------

Sessions == 1..MaxSessions

\* A data key or an entity key: the strings "voltage", "<alias>_48_voltage",
\* "battery_48_voltage", "combined_voltage" as their parts.
Name(prefix, unit, field) == [prefix |-> prefix, unit |-> unit, field |-> field]

\* ESPHomeAPIProtocol.__init__; _transport is None until connection_made
\* ("new"), then the transport ("open"), still the transport after
\* transport.close() while connection_lost is pending ("closing", writes are
\* discarded), None again after connection_lost ("lost").
\* active: the protocol is in the server's _active_protocols list.
\* hello, listed, announced and fault are history of the session: a
\* HelloRequest was served, a listing was served, the keys it announced, a
\* frame with a bad preamble arrived.
ProtocolInit ==
    [transport |-> "new", ble |-> FALSE, states |-> FALSE, sensor_entities |-> <<>>,
     active |-> FALSE, hello |-> FALSE, listed |-> FALSE, announced |-> {}, fault |-> FALSE]

Digits == {"0", "1", "2", "3", "4", "5", "6", "7", "8", "9"}
HexDigits == Digits \cup {"A", "B", "C", "D", "E", "F", "a", "b", "c", "d", "e", "f"}
Whitespace == {" ", "\t"}

RECURSIVE RunEnd(_, _, _)
\* The position after the longest run of characters of class from pos on.
RunEnd(name, pos, class) ==
    IF pos <= Len(name) /\ name[pos] \in class THEN RunEnd(name, pos + 1, class) ELSE pos

\* A pattern that wants two or more blanks before the bracket.
AdapterNamePatternTwoBlanks(name) ==
    LET d == RunEnd(name, 4, Digits)
        w == RunEnd(name, d, Whitespace)
        x == RunEnd(name, w + 1, HexDigits \cup {":"})
    IN /\ Len(name) >= 3
       /\ SubSeq(name, 1, 3) = <<"h", "c", "i">>
       /\ d > 4
       /\ w > d + 1
       /\ w <= Len(name)
       /\ name[w] = "("
       /\ x > w + 1
       /\ x <= Len(name)
       /\ name[x] = ")"
       /\ x = Len(name)

\* ADAPTER_NAME_PATTERN.match(name): ^hci\d+\s+\([0-9A-Fa-f:]+\)$, where $
\* also matches before a final newline.  name is the sequence of the
\* characters.
AdapterNamePattern(name) ==
    LET d == RunEnd(name, 4, Digits)
        w == RunEnd(name, d, Whitespace)
        x == RunEnd(name, w + 1, HexDigits \cup {":"})
    IN /\ Len(name) >= 3
       /\ SubSeq(name, 1, 3) = <<"h", "c", "i">>
       /\ d > 4
       /\ w > d
       /\ w <= Len(name)
       /\ name[w] = "("
       /\ x > w + 1
       /\ x <= Len(name)
       /\ name[x] = ")"
       /\ \/ x = Len(name)
          \/ x + 1 = Len(name) /\ name[x + 1] = "\n"

\* device.name of the advertisements seen: none, ordinary devices, the
\* host's adapter as BlueZ names it, and near misses of the pattern.
AdvNames ==
    { <<>>,
      <<"B", "T", "-", "1">>,
      <<"h", "c", "i", "0", " ", "(", "A", "0", ":", "B", "1", ")">>,
      <<"h", "c", "i", "1", "0", " ", "(", "F", "F", ")">>,
      <<"h", "c", "i", "0", " ", " ", "(", "a", ":", "f", ")">>,
      <<"h", "c", "i", "0", " ", "(", "A", "0", ")", "\n">>,
      <<"h", "c", "i", " ", "(", "A", "0", ")">>,
      <<"h", "c", "i", "0", "(", "A", "0", ")">>,
      <<"h", "c", "i", "0", " ", "(", ")">>,
      <<"h", "c", "i", "0", " ", "(", "G", "0", ")">>,
      <<"h", "c", "i", "0", " ", "(", "A", "0", ")", "x">>,
      <<"x", "h", "c", "i", "0", " ", "(", "A", "0", ")">> }

AdvIdle ==
    /\ proto = [s \in Sessions |-> ProtocolInit]
    /\ send_advertisement_callback = 0
    /\ wire = [s \in Sessions |-> <<>>]
    /\ advEvent = "none"
    /\ advName = <<>>
    /\ advSession = 0
    /\ serverPc = "listening"

NoWrites == [s \in Sessions |-> <<>>]

\* _send_ble_advertisement of protocol p: nothing without the flag or the
\* transport, else the legacy and the raw response.
SendBleAdvertisement(p) ==
    IF ~p.ble \/ p.transport # "open" THEN <<>> ELSE <<"adv_legacy", "adv_raw">>

\* The factory's "sensor_entities or {}": the server's registry as it is when
\* the connection is accepted.
ProtocolEntities(entities) == entities

\* The server's protocol factory and connection_made.
Connect(s) ==
    /\ serverPc = "listening"
    /\ proto[s].transport = "new"
    /\ proto' = [proto EXCEPT ![s].transport = "open",
                              ![s].active = TRUE,
                              ![s].sensor_entities = ProtocolEntities(sensor_entities)]
    /\ wire' = NoWrites
    /\ advEvent' = "connect"
    /\ advSession' = s
    /\ UNCHANGED <<send_advertisement_callback, serverPc>>
    /\ advName' = <<>>
    /\ AdvFrame

\* _handle_message(HelloRequest): a HelloResponse, whatever came before.
Hello(s) ==
    /\ proto[s].transport = "open"
    /\ proto' = [proto EXCEPT ![s].hello = TRUE]
    /\ wire' = [NoWrites EXCEPT ![s] = <<"hello">>]
    /\ advEvent' = "hello"
    /\ advSession' = s
    /\ UNCHANGED <<send_advertisement_callback, serverPc>>
    /\ advName' = <<>>
    /\ AdvFrame

\* One ListEntitiesSensorResponse per entity of the protocol's dictionary,
\* in its order.
ListingOf(entities) ==
    [i \in 1..Len(entities) |->
        [type |-> "sensor", entity_key |-> entities[i].entity_key, key |-> entities[i].key]]

\* What a listing announces: the key of each entity.
AnnouncedBy(entities) ==
    {[entity_key |-> entities[i].entity_key, key |-> entities[i].key] : i \in 1..Len(entities)}

\* _handle_message(ListEntitiesRequest): the entities, then
\* ListEntitiesDoneResponse.
ListEntities(s) ==
    /\ proto[s].transport = "open"
    /\ proto' = [proto EXCEPT ![s].listed = TRUE,
                              ![s].announced = @ \cup AnnouncedBy(proto[s].sensor_entities)]
    /\ wire' = [NoWrites EXCEPT ![s] =
                   ListingOf(proto[s].sensor_entities) \o <<[type |-> "list_done"]>>]
    /\ advEvent' = "list"
    /\ advSession' = s
    /\ UNCHANGED <<send_advertisement_callback, serverPc>>
    /\ advName' = <<>>
    /\ AdvFrame

\* _handle_message(SubscribeBluetoothLEAdvertisementsRequest): the flag is
\* set, register_advertisement_sender stores this session's sender in
\* send_advertisement_callback and sends the synthetic advertisement through
\* it, then the scanner state response is written.
SubscribeBLE(s) ==
    /\ proto[s].transport = "open"
    /\ proto' = [proto EXCEPT ![s].ble = TRUE]
    /\ send_advertisement_callback' = s
    /\ wire' = [NoWrites EXCEPT ![s] = SendBleAdvertisement(proto'[s]) \o <<"scanner_state">>]
    /\ advEvent' = "subscribe"
    /\ advSession' = s
    /\ UNCHANGED serverPc
    /\ advName' = <<>>
    /\ AdvFrame

\* _handle_message(UnsubscribeBluetoothLEAdvertisementsRequest).
UnsubscribeBLE(s) ==
    /\ proto[s].transport = "open"
    /\ proto' = [proto EXCEPT ![s].ble = FALSE]
    /\ wire' = [NoWrites EXCEPT ![s] = <<"scanner_state">>]
    /\ advEvent' = "unsubscribe"
    /\ advSession' = s
    /\ UNCHANGED <<send_advertisement_callback, serverPc>>
    /\ advName' = <<>>
    /\ AdvFrame

\* _handle_message(SubscribeStatesRequest): the flag, no response.
SubscribeStates(s) ==
    /\ proto[s].transport = "open"
    /\ proto' = [proto EXCEPT ![s].states = TRUE]
    /\ wire' = NoWrites
    /\ advEvent' = "subscribe_states"
    /\ advSession' = s
    /\ UNCHANGED <<send_advertisement_callback, serverPc>>
    /\ advName' = <<>>
    /\ AdvFrame

\* data_received with at least three bytes whose first varint is not 0: the
\* buffer is reset and the transport closed.
BadPreamble(s) ==
    /\ proto[s].transport = "open"
    /\ proto' = [proto EXCEPT ![s].transport = "closing", ![s].fault = TRUE]
    /\ wire' = NoWrites
    /\ advEvent' = "bad_preamble"
    /\ advSession' = s
    /\ UNCHANGED <<send_advertisement_callback, serverPc>>
    /\ advName' = <<>>
    /\ AdvFrame

\* data_received with a well-formed frame whose type is not in
\* MESSAGE_TYPE_TO_PROTO: _process_packet logs the KeyError and returns.
UnknownMessageType(s) ==
    /\ proto[s].transport = "open"
    /\ wire' = NoWrites
    /\ advEvent' = "unknown_type"
    /\ advSession' = s
    /\ UNCHANGED <<proto, send_advertisement_callback, serverPc>>
    /\ advName' = <<>>
    /\ AdvFrame

\* ESPHomeAPIServer._remove_protocol: the protocol leaves _active_protocols.
RemoveProtocol(p) == [p EXCEPT !.active = FALSE]

\* A connection_lost that forgets the transport and nothing else.
ConnectionLostKeepsSubscriptions(s) ==
    /\ proto[s].transport \in {"open", "closing"}
    /\ proto' = [proto EXCEPT ![s].transport = "lost"]
    /\ wire' = NoWrites
    /\ advEvent' = "lost"
    /\ advSession' = s
    /\ UNCHANGED <<send_advertisement_callback, serverPc>>
    /\ advName' = <<>>
    /\ AdvFrame

\* connection_lost, after the peer went away or after transport.close():
\* transport and flags are cleared, on_disconnect removes the protocol from
\* the server's list.
ConnectionLost(s) ==
    /\ proto[s].transport \in {"open", "closing"}
    /\ proto' = [proto EXCEPT ![s] =
                    RemoveProtocol([@ EXCEPT !.transport = "lost", !.ble = FALSE,
                                             !.states = FALSE])]
    /\ wire' = NoWrites
    /\ advEvent' = "lost"
    /\ advSession' = s
    /\ UNCHANGED <<send_advertisement_callback, serverPc>>
    /\ advName' = <<>>
    /\ AdvFrame

\* on_ble_advertisement: dropped without a callback or with an adapter name,
\* else the payload is handed to send_advertisement_callback.
OnBleAdvertisement(name) ==
    /\ IF send_advertisement_callback = 0 \/ (name # <<>> /\ AdapterNamePattern(name))
       THEN /\ wire' = NoWrites
            /\ advEvent' = "adv_dropped"
       ELSE /\ wire' = [NoWrites EXCEPT ![send_advertisement_callback] =
                           SendBleAdvertisement(proto[send_advertisement_callback])]
            /\ advEvent' = "adv"
    /\ advName' = name
    /\ advSession' = 0
    /\ UNCHANGED <<proto, send_advertisement_callback, serverPc>>
    /\ AdvFrame

\* Sessions whose transport the event loop still tracks.
Connected == {s \in Sessions : proto[s].transport \in {"open", "closing"}}

\* ESPHomeAPIServer.stop: Server.close() ends listening and leaves accepted
\* connections alone; wait_closed() returns at once, or, on interpreters
\* where it waits for the connections (waits = TRUE), once they are gone.
\* A second call finds _server still set and does the same.
ServerStop(waits) ==
    /\ serverPc \in {"listening", "stopped"}
    /\ serverPc' = IF waits /\ Connected # {} THEN "wait_closed" ELSE "stopped"
    /\ wire' = NoWrites
    /\ advEvent' = IF serverPc = "stopped" THEN "stop_again" ELSE "stop"
    /\ advSession' = 0
    /\ UNCHANGED <<proto, send_advertisement_callback>>
    /\ advName' = <<>>
    /\ AdvFrame

\* wait_closed() returns when the last connection has gone.
ServerWaitClosed ==
    /\ serverPc = "wait_closed"
    /\ Connected = {}
    /\ serverPc' = "stopped"
    /\ wire' = NoWrites
    /\ advEvent' = "stop"
    /\ advSession' = 0
    /\ UNCHANGED <<proto, send_advertisement_callback>>
    /\ advName' = <<>>
    /\ AdvFrame

NextAdv ==
    \/ \E s \in Sessions : Connect(s)
    \/ \E s \in Sessions : Hello(s)
    \/ \E s \in Sessions : ListEntities(s)
    \/ \E s \in Sessions : SubscribeBLE(s)
    \/ \E s \in Sessions : UnsubscribeBLE(s)
    \/ \E s \in Sessions : SubscribeStates(s)
    \/ \E s \in Sessions : BadPreamble(s)
    \/ \E s \in Sessions : UnknownMessageType(s)
    \/ \E s \in Sessions : ConnectionLost(s)
    \/ \E name \in AdvNames : OnBleAdvertisement(name)
    \/ \E waits \in BOOLEAN : ServerStop(waits)
    \/ ServerWaitClosed

\* ------------------------------------------------------------------------
\* Sensor entities and sensor states
\* ------------------------------------------------------------------------

\* The two programs of the repository that run an ESPHomeAPIServer with
\* sensors: renogy_bt_proxy.py creates entities from the first reading of
\* each device, unified_proxy.py configures a fixed table before serving.
Owners == {"renogy_bt_proxy", "unified_proxy"}

\* The unit ids configured in device_id (a multi-battery RNG_BATT set-up).
DeviceIds == {48, 52}

\* Keys of a reading, in the order of the parsed dictionary.
DataShapes == {<<"voltage", "current">>, <<"device_id", "current">>}

Values == 1..MaxValue

\* create_sensor_entities_from_data skips these keys.
SkippedFields == {"function", "device_id"}

RECURSIVE CreateFrom(_, _, _, _)
CreateFrom(fields, prefix, unit, key_counter) ==
    IF fields = <<>> THEN <<>>
    ELSE IF Head(fields) \in SkippedFields
    THEN CreateFrom(Tail(fields), prefix, unit, key_counter)
    ELSE <<[entity_key |-> Name(prefix, unit, Head(fields)),
            data_key |-> Name("", 0, Head(fields)),
            key |-> key_counter,
            force_update |-> FALSE]>>
         \o CreateFrom(Tail(fields), prefix, unit, key_counter + 1)

\* create_sensor_entities_from_data(data, alias, temp_unit, base_key): one
\* entity per numeric field, keys counted up from base_key.
CreateSensorEntitiesFromData(fields, prefix, unit, base_key) ==
    CreateFrom(fields, prefix, unit, base_key)

\* on_data_received: base_key = 1000 + (device_num - 48) * 1000.
BaseKey(device_num) == 1000 + (device_num - 48) * 1000

\* on_data_received: base_key=5000 for the combined entities.
CombinedBaseKey == 5000

\* ESPHomeAPIServer.set_sensor_entities(entities): the registry is replaced.
SetSensorEntities(registry, entities) == entities

\* on_data_received's call api_server.set_sensor_entities(entities,
\* replace=False): the method takes no "replace", the call raises TypeError
\* before the method runs, the handler's except clause logs it; the
\* registry stays as it was and the alias is not recorded as initialised.
RegisterEntities(registry, entities) == registry

\* The sensor_templates of unified_proxy the model carries, and its
\* battery ids.
SensorTemplates == <<"voltage", "current">>
UnifiedBatteries == <<48, 49, 50, 51>>

\* unified_proxy._generate_battery_entities: per battery and template, then
\* the combined ones; key_counter starts at 1000 and is incremented before
\* each use; no data_key, so the entity key serves as such.
GenerateBatteryEntities ==
    [i \in 1..((Len(UnifiedBatteries) + 1) * Len(SensorTemplates)) |->
        LET b == ((i - 1) \div Len(SensorTemplates)) + 1
            t == ((i - 1) % Len(SensorTemplates)) + 1
            full_key == IF b <= Len(UnifiedBatteries)
                        THEN Name("battery", UnifiedBatteries[b], SensorTemplates[t])
                        ELSE Name("combined", 0, SensorTemplates[t])
        IN [entity_key |-> full_key, data_key |-> full_key,
            key |-> 1000 + i, force_update |-> FALSE]]

\* The registry each program serves with.
RegistryOf(o) ==
    IF o = "unified_proxy" THEN SetSensorEntities(<<>>, GenerateBatteryEntities) ELSE <<>>

SensorsConfigured(o) ==
    /\ owner = o
    /\ sensor_entities = RegistryOf(o)
    /\ created = {}
    /\ battery_map = {}
    /\ published = {}

SensorsIdle == SensorsConfigured("renogy_bt_proxy")

\* The key a SensorStateResponse carries for an entity.
EntityStateKeyShifted(e) == e.key + 1

EntityStateKey(e) == e.key

\* A lookup by field name alone, whichever device the entity belongs to.
RECURSIVE FirstMatchByField(_, _)
FirstMatchByField(entities, data_key) ==
    IF entities = <<>> THEN <<>>
    ELSE IF Head(entities).data_key.field = data_key.field THEN <<Head(entities)>>
    ELSE FirstMatchByField(Tail(entities), data_key)

RECURSIVE FirstMatch(_, _)
FirstMatch(entities, data_key) ==
    IF entities = <<>> THEN <<>>
    ELSE IF Head(entities).data_key = data_key THEN <<Head(entities)>>
    ELSE FirstMatch(Tail(entities), data_key)

RECURSIVE StateResponses(_, _)
StateResponses(entities, data) ==
    IF data = <<>> THEN <<>>
    ELSE LET m == FirstMatch(entities, Head(data).data_key)
         IN (IF Len(m) = 0 THEN <<>>
             ELSE <<[type |-> "state", entity_key |-> m[1].entity_key,
                     key |-> EntityStateKey(m[1]), state |-> Head(data).value,
                     unit |-> Head(data).unit]>>)
            \o StateResponses(entities, Tail(data))

\* ESPHomeAPIProtocol.send_sensor_states: nothing without the states flag or
\* the transport; else one SensorStateResponse per data key that the first
\* entity with that data key answers for.
SendSensorStates(p, data) ==
    IF ~p.states \/ p.transport # "open" THEN <<>>
    ELSE StateResponses(p.sensor_entities, data)

\* ESPHomeAPIServer.send_sensor_states: every active protocol.
ServerSendSensorStates(data) ==
    [s \in Sessions |-> IF proto[s].active THEN SendSensorStates(proto[s], data) ELSE <<>>]

\* A reading as the dictionary handed to send_sensor_states; unit is the
\* device the value was read from (0 for a value combined from several).
DataOf(dev_id, fields, value) ==
    [i \in 1..Len(fields) |->
        [data_key |-> Name("", 0, fields[i]), value |-> value, unit |-> dev_id]]

FramesOf(w) == UNION {{w[s][i] : i \in 1..Len(w[s])} : s \in Sessions}

\* What was published last for each key, after the frames of w went out.
PublishedAfter(pub, w) ==
    LET sent == {[key |-> f.key, state |-> f.state] : f \in FramesOf(w)}
    IN {p \in pub : p.key \notin {q.key : q \in sent}} \cup sent

SensorsFrame ==
    UNCHANGED <<supVars, pollVars, cycVars, proto, send_advertisement_callback, serverPc,
                advName, codecVars, readVars, escVars, healthVars, winVars>>

EntityKeys(entities) ==
    {[entity_key |-> entities[i].entity_key, key |-> entities[i].key] : i \in 1..Len(entities)}

\* _create_client.on_data_received of renogy_bt_proxy, as far as the API
\* server is concerned: entities are created for the device (no alias is
\* ever recorded as initialised, so on every reading) and handed to
\* set_sensor_entities; the reading is sent; once every configured device
\* has reported, the same for the combined reading (the disconnect of the
\* sessions follows the failing set_sensor_entities call inside the same try
\* block and is not reached), and battery_map is cleared.
OnDataReceived(dev_id, fields, combined_fields, value) ==
    /\ owner = "renogy_bt_proxy"
    /\ LET entities == CreateSensorEntitiesFromData(fields, "alias", dev_id, BaseKey(dev_id))
           map == battery_map \cup {dev_id}
           complete == Cardinality(map) = Cardinality(DeviceIds)
           combined == IF complete
                       THEN CreateSensorEntitiesFromData(combined_fields, "alias_combined",
                                                         0, CombinedBaseKey)
                       ELSE <<>>
           new == EntityKeys(entities) \cup EntityKeys(combined)
           w1 == ServerSendSensorStates(DataOf(dev_id, fields, value))
           w2 == IF complete
                 THEN ServerSendSensorStates(DataOf(0, combined_fields, value))
                 ELSE NoWrites
       IN /\ sensor_entities' =
                 IF complete
                 THEN RegisterEntities(RegisterEntities(sensor_entities, entities), combined)
                 ELSE RegisterEntities(sensor_entities, entities)
          /\ created' = created \cup new
          /\ battery_map' = IF complete THEN {} ELSE map
          /\ wire' = [s \in Sessions |-> w1[s] \o w2[s]]
          /\ published' = PublishedAfter(published, wire')
          /\ advEvent' = IF \E e \in new : e.entity_key \notin {c.entity_key : c \in created}
                         THEN "introduce" ELSE "reading"
          /\ advSession' = 0
    /\ UNCHANGED owner
    /\ SensorsFrame

\* The dictionaries unified_proxy._on_renogy_data hands to
\* send_sensor_states: for each battery of the reading the keys prefixed
\* with its device id, then the keys of the combined block.
UnifiedReadings ==
    {<<[data_key |-> Name("battery", 48, "voltage"), value |-> v, unit |-> 48],
       [data_key |-> Name("battery", 49, "voltage"), value |-> w, unit |-> 49],
       [data_key |-> Name("combined", 0, "voltage"), value |-> v, unit |-> 0]>> :
        v \in Values, w \in Values}

\* unified_proxy._on_renogy_data: esphome_server.send_sensor_states(all_parsed).
OnRenogyData(data) ==
    /\ owner = "unified_proxy"
    /\ wire' = ServerSendSensorStates(data)
    /\ published' = PublishedAfter(published, wire')
    /\ advEvent' = "reading"
    /\ advSession' = 0
    /\ UNCHANGED <<owner, sensor_entities, created, battery_map>>
    /\ SensorsFrame

NextSensors ==
    \/ \E s \in Sessions : Connect(s)
    \/ \E s \in Sessions : ListEntities(s)
    \/ \E s \in Sessions : SubscribeStates(s)
    \/ \E s \in Sessions : ConnectionLost(s)
    \/ \E dev_id \in DeviceIds, fields \in DataShapes, combined_fields \in DataShapes,
          value \in Values : OnDataReceived(dev_id, fields, combined_fields, value)
    \/ \E data \in UnifiedReadings : OnRenogyData(data)

\* ========================================================================
\* Native-API framing (esphome_api_server.py)
\* ========================================================================

\* Payload lengths explored byte by byte, and the length of the one long
\* payload whose length needs a two-byte varint.
MaxPayloadLen == 2
LongPayloadLen == 130

\* Byte values the payloads are made of.
PayloadBytes == {0, 255}

\* Message types sent: one-byte, two-byte and three-byte varints.
MsgTypes == {1, 127, 128, 300, 16384}

RECURSIVE EncodeVarint(_)
\* _encode_varint: seven bits per byte, low group first, 0x80 on all but the
\* last byte.
EncodeVarint(value) ==
    IF value > 127
        THEN <<(value % 128) + 128>> \o EncodeVarint(value \div 128)
        ELSE <<value % 128>>

\* The framing older controllers used: the length counts the message type.
MakePacketLengthWithType(msg_type, payload) ==
    <<0>> \o EncodeVarint(Len(EncodeVarint(msg_type)) + Len(payload))
          \o EncodeVarint(msg_type) \o payload

\* _make_packet: preamble, varint payload length, varint type, payload.
MakePacket(msg_type, payload) ==
    <<0>> \o EncodeVarint(Len(payload)) \o EncodeVarint(msg_type) \o payload

RECURSIVE ReadVaruintFrom(_, _, _, _)
\* The loop of _read_varuint from position pos (bytes before it are read):
\* -1 when the bytes run out before a byte without the continuation bit.
ReadVaruintFrom(buf, pos, result, weight) ==
    IF Len(buf) > pos
        THEN LET byte == buf[pos + 1]
             IN IF byte < 128
                    THEN [value |-> result + (byte % 128) * weight, pos |-> pos + 1]
                    ELSE ReadVaruintFrom(buf, pos + 1, result + (byte % 128) * weight,
                                         weight * 128)
        ELSE [value |-> -1, pos |-> pos]

\* _read_varuint.
ReadVaruint(buf, pos) ==
    IF buf = <<>> THEN [value |-> -1, pos |-> pos] ELSE ReadVaruintFrom(buf, pos, 0, 1)

\* _read: None (here <<-1>>) when fewer than length bytes are buffered.
Read(buf, pos, length) ==
    IF Len(buf) < pos + length THEN <<-1>> ELSE SubSeq(buf, pos + 1, pos + length)

\* _remove_from_buffer.
RemoveFromBuffer(buf, pos) == SubSeq(buf, pos + 1, Len(buf))

RECURSIVE Drain(_, _)
\* The while loop of data_received over the buffer buf, done being the
\* packets already handed to _process_packet by this call.
Drain(buf, done) ==
    IF Len(buf) < 3
        THEN [buffer |-> buf, packets |-> done, close |-> FALSE]
        ELSE LET preamble == ReadVaruint(buf, 0)
                 length == ReadVaruint(buf, preamble.pos)
                 msg_type == ReadVaruint(buf, length.pos)
                 packet == Read(buf, msg_type.pos, length.value)
             IN IF preamble.value # 0 \/ length.value = -1 \/ msg_type.value = -1
                    THEN [buffer |-> <<>>, packets |-> done, close |-> TRUE]
                    ELSE IF length.value = 0
                        THEN Drain(RemoveFromBuffer(buf, msg_type.pos),
                                   Append(done, [msg_type |-> msg_type.value,
                                                 payload |-> <<>>,
                                                 consumed |-> msg_type.pos]))
                        ELSE IF packet = <<-1>>
                            THEN [buffer |-> buf, packets |-> done, close |-> FALSE]
                            ELSE Drain(RemoveFromBuffer(buf, msg_type.pos + length.value),
                                       Append(done, [msg_type |-> msg_type.value,
                                                     payload |-> packet,
                                                     consumed |-> msg_type.pos + length.value]))

RECURSIVE PayloadsOf(_)
PayloadsOf(n) ==
    IF n = 0 THEN {<<>>}
    ELSE PayloadsOf(n - 1) \cup
         {Append(p, b) : p \in {q \in PayloadsOf(n - 1) : Len(q) = n - 1}, b \in PayloadBytes}

\* The payloads sent: every short one, and one long one.
Payloads == PayloadsOf(MaxPayloadLen) \cup {[i \in 1..LongPayloadLen |-> 255]}

\* A connection over which the peer sends the frame of message m.
CodecConfigured(m) ==
    /\ frame = m
    /\ inbound = MakePacket(m.msg_type, m.payload)
    /\ buffer = <<>>
    /\ packets = <<>>
    /\ codecTransport = "open"
    /\ segments = 0

CodecIdle == CodecConfigured([msg_type |-> 1, payload |-> <<>>])

\* data_received with the next n bytes of the stream.
DataReceived(n) ==
    /\ codecTransport = "open"
    /\ n \in 1..Len(inbound)
    /\ LET out == Drain(buffer \o SubSeq(inbound, 1, n), <<>>)
       IN /\ buffer' = out.buffer
          /\ packets' = packets \o out.packets
          /\ codecTransport' = IF out.close THEN "closing" ELSE "open"
    /\ inbound' = SubSeq(inbound, n + 1, Len(inbound))
    /\ segments' = Min(segments + 1, 2)
    /\ UNCHANGED frame
    /\ CodecFrame

NextCodec == \E n \in 1..(LongPayloadLen + 8) : DataReceived(n)

\* ========================================================================
\* BaseClient: the conversation with the peripheral (BaseClient.py,
\* BLEManager.py)
\* ========================================================================

\* Modbus unit ids configured in device_id.
MaxDevices == 2

READ_SUCCESS == 3
READ_ERROR == 131

\* A function code that is neither: a write acknowledgement.
OtherFunction == 6

\* self.sections of the concrete client: a word count and a parser each.
Sections == [i \in 1..MaxSections |-> [words |-> i + 1, parser |-> TRUE]]

\* What a notification may carry: the function code in byte 1 and the
\* length of the frame.
Responses ==
    [operation : {READ_SUCCESS, READ_ERROR, OtherFunction},
     length : {Sections[i].words * 2 + 5 : i \in 1..MaxSections} \cup {5}]

\* device_id list, scheduled_mode of _create_client and [data]
\* enable_polling.
ReadConfigs == [devices : 1..MaxDevices, scheduled_mode : BOOLEAN, enable_polling : BOOLEAN]

\* BaseClient.__init__, before start().
ClientInit ==
    [loop |-> "none", section_index |-> 0, device_index |-> 0, read_timeout |-> "none",
     last_error |-> "none", readers |-> 0, stopping |-> FALSE]

NoReadEvent ==
    [op |-> "init", section |-> 0, well_formed |-> FALSE, parsed |-> FALSE,
     moved_on |-> FALSE, was_error |-> "none"]

ReadConfigured(cfg) ==
    /\ readCfg = cfg
    /\ rc = ClientInit
    /\ outstanding = 0
    /\ readEvent = NoReadEvent

ReadIdle == ReadConfigured([devices |-> 1, scheduled_mode |-> TRUE, enable_polling |-> FALSE])

ReadFrame == UNCHANGED <<supVars, pollVars, cycVars, advVars, senVars, codecVars, escVars, healthVars, winVars>>

\* "if self.read_timeout and not self.read_timeout.cancelled(): cancel()".
CancelTimeout(handle) == IF handle = "armed" THEN "cancelled" ELSE handle

\* A stop() that records the stop as a read timeout.
StopAsTimeout(c) ==
    IF c.loop # "running"
        THEN [c EXCEPT !.read_timeout = CancelTimeout(@)]
        ELSE [c EXCEPT !.read_timeout = CancelTimeout(@),
                       !.last_error = IF @ = "none" THEN "read_timeout" ELSE @,
                       !.stopping = TRUE]

\* BaseClient.stop: without a loop, or with a closed one, it returns;
\* otherwise last_error becomes "stopped" unless an error is recorded, and
\* disconnect() is scheduled on the client's loop.
Stop(c) ==
    IF c.loop # "running"
        THEN [c EXCEPT !.read_timeout = CancelTimeout(@)]
        ELSE [c EXCEPT !.read_timeout = CancelTimeout(@),
                       !.last_error = IF @ = "none" THEN "stopped" ELSE @,
                       !.stopping = TRUE]

\* A timeout handler that gives the section up and reads the next one.
OnReadTimeoutSkipSection(c) ==
    [c EXCEPT !.read_timeout = "fired",
              !.last_error = "read_timeout",
              !.section_index = IF @ >= Len(Sections) - 1 THEN 0 ELSE @ + 1,
              !.readers = @ + 1]

\* on_read_timeout: last_error is "read_timeout" and the client stops.
OnReadTimeout(c) ==
    Stop([c EXCEPT !.read_timeout = "fired", !.last_error = "read_timeout"])

\* The shape test of on_data_received: a success code, a section with a
\* parser, and words * 2 + 5 bytes.
ParserCalled(c, response) ==
    /\ response.operation = READ_SUCCESS
    /\ c.section_index < Len(Sections)
    /\ Sections[c.section_index + 1].parser
    /\ Sections[c.section_index + 1].words * 2 + 5 = Len(response.frame)

\* should_stop of the proxy's data callback: battery_map has been cleared by
\* the time a multi-battery setup compares it with the device list.
ShouldStop(cfg) == (cfg.scheduled_mode \/ ~cfg.enable_polling) /\ cfg.devices = 1

\* on_read_operation_complete: the data callback, which may stop the client,
\* then last_error = None.
OnReadOperationComplete(c, cfg) ==
    [(IF ShouldStop(cfg) THEN Stop(c) ELSE c) EXCEPT !.last_error = "none"]

\* on_data_received from the cancelled timeout to the sleep before the next
\* read_section; readers counts the read_section calls that are due.
ClientDataReceived(c, cfg, response) ==
    LET d == [c EXCEPT !.read_timeout = CancelTimeout(@)]
    IN IF response.operation \in {READ_SUCCESS, READ_ERROR}
       THEN IF d.section_index >= Len(Sections) - 1
            THEN LET e == OnReadOperationComplete([d EXCEPT !.section_index = 0], cfg)
                 IN IF e.device_index >= cfg.devices - 1
                    THEN [e EXCEPT !.device_index = 0,
                                   !.readers = IF cfg.enable_polling THEN @ + 1 ELSE @]
                    ELSE [e EXCEPT !.device_index = @ + 1, !.readers = @ + 1]
            ELSE [d EXCEPT !.section_index = @ + 1, !.readers = @ + 1]
       ELSE d

\* The bytes of a response, as far as on_data_received looks at them.
FrameOf(r) == [i \in 1..r.length |-> IF i = 2 THEN r.operation ELSE 0]

\* BaseClient.start and connect: the loop runs, the device is found and
\* connected, and the first read_section is due.
ClientStart ==
    /\ rc.loop = "none"
    /\ rc' = [rc EXCEPT !.loop = "running", !.readers = 1]
    /\ readEvent' = [NoReadEvent EXCEPT !.op = "start"]
    /\ UNCHANGED <<readCfg, outstanding>>
    /\ ReadFrame

\* read_section: the timeout is armed, then the request is written; a
\* missing connection or a failed write raises in the calling task and
\* leaves the timeout armed.
ReadSection(written) ==
    /\ rc.loop = "running"
    /\ rc.readers > 0
    /\ rc' = [rc EXCEPT !.readers = @ - 1, !.read_timeout = "armed"]
    /\ outstanding' = IF written THEN outstanding + 1 ELSE outstanding
    /\ readEvent' = [NoReadEvent EXCEPT !.op = IF written THEN "request" ELSE "write_failed",
                                        !.section = rc.section_index,
                                        !.was_error = rc.last_error]
    /\ UNCHANGED readCfg
    /\ ReadFrame

\* notification_callback: the peripheral answers a request it has received,
\* and on_data_received runs as a task of the client's loop.
NotificationCallback(r) ==
    /\ rc.loop = "running"
    /\ outstanding > 0
    /\ LET response == [operation |-> r.operation, frame |-> FrameOf(r)]
           next == ClientDataReceived(rc, readCfg, response)
       IN /\ rc' = next
          /\ readEvent' = [op |-> "response",
                           section |-> rc.section_index,
                           well_formed |-> (r.operation = READ_SUCCESS /\
                                r.length = Sections[rc.section_index + 1].words * 2 + 5),
                           parsed |-> ParserCalled(rc, response),
                           moved_on |-> (next.readers > rc.readers \/
                                         (next.section_index = 0 /\
                                          rc.section_index = Len(Sections) - 1)),
                           was_error |-> rc.last_error]
    /\ outstanding' = outstanding - 1
    /\ UNCHANGED readCfg
    /\ ReadFrame

\* The armed timeout fires READ_TIMEOUT after read_section.
ReadTimeoutFires ==
    /\ rc.loop = "running"
    /\ rc.read_timeout = "armed"
    /\ rc' = OnReadTimeout(rc)
    /\ readEvent' = [NoReadEvent EXCEPT !.op = "timeout", !.section = rc.section_index,
                                        !.moved_on = (rc'.readers > rc.readers),
                                        !.was_error = rc.last_error]
    /\ UNCHANGED <<readCfg, outstanding>>
    /\ ReadFrame

\* stop() called from the coordinator's thread (stop_battery_client).
ClientStop ==
    /\ rc.loop # "closed"
    /\ rc' = Stop(rc)
    /\ readEvent' = [NoReadEvent EXCEPT !.op = "stop", !.section = rc.section_index,
                                        !.was_error = rc.last_error]
    /\ UNCHANGED <<readCfg, outstanding>>
    /\ ReadFrame

\* disconnect(): the link is dropped, ble_manager is None and the future is
\* done; start() cancels the tasks that are left and closes the loop.
ClientDisconnect ==
    /\ rc.loop = "running"
    /\ rc.stopping
    /\ rc' = [rc EXCEPT !.loop = "closed", !.readers = 0, !.stopping = FALSE]
    /\ outstanding' = 0
    /\ readEvent' = [NoReadEvent EXCEPT !.op = "disconnect", !.section = rc.section_index,
                                        !.was_error = rc.last_error]
    /\ UNCHANGED readCfg
    /\ ReadFrame

NextRead ==
    \/ ClientStart
    \/ \E written \in BOOLEAN : ReadSection(written)
    \/ \E r \in Responses : NotificationCallback(r)
    \/ ReadTimeoutFires
    \/ ClientStop
    \/ ClientDisconnect

\* ========================================================================
\* run_proxy: the exits of successive battery clients and the restart task
\* ========================================================================

\* should_power_cycle of _restart_battery_client; run_client swallows the
\* client's exceptions, so exc is None.
ShouldPowerCycle(timeout_error, timeouts) == ~timeout_error \/ timeouts >= 3

\* run_proxy waiting on stop_event with its first battery client running in
\* the executor.
RestartConfigured(mode) ==
    /\ renogy_poll_mode = mode
    /\ poll_after_proxy_cycle = FALSE
    /\ battery_client = TRUE
    /\ battery_future = "pending"
    /\ battery_stopping = FALSE
    /\ stop_event = FALSE
    /\ poll_cycle_event = FALSE
    /\ consecutive_timeouts = 0
    /\ lastError = "none"
    /\ activeRuns = 1
    /\ doneCb = "none"
    /\ readerPc = IF mode = "scheduled" THEN "interval" ELSE "none"
    /\ restartPc = "none"
    /\ mainPc = "running"
    /\ sinceRead = 0
    /\ waited = 0
    /\ evBy = {}
    /\ gate = "none"
    /\ pollOp = "none"
    /\ lastPoll = [gate |-> "none", skips |-> 0]
    /\ skips = 0
    /\ sinceSkip = IntervalTicks

EscIdle ==
    /\ timeoutRun = 0
    /\ escalated = FALSE

RestartFrame ==
    UNCHANGED <<supVars, cycVars, advVars, senVars, codecVars, readVars, healthVars, winVars,
                pollConfig,
                gateVars,
                pollHist, battery_client, battery_stopping, activeRuns, readerPc, mainPc,
                sinceRead>>

\* run_client() returns; the future is done and its callback is scheduled.
ExecutorExit ==
    /\ battery_future = "pending"
    /\ battery_future' = "done"
    /\ doneCb' = "result"
    /\ UNCHANGED <<stop_event, consecutive_timeouts, lastError, restartPc, timeoutRun, escalated>>
    /\ RestartFrame

\* _battery_done_callback for a client that left `err` as its last_error: in
\* scheduled mode it only logs; otherwise it creates the
\* _restart_battery_client task and hands it `err`.
DoneCallback(err) ==
    /\ doneCb = "result"
    /\ doneCb' = "none"
    /\ IF stop_event \/ battery_stopping \/ renogy_poll_mode = "scheduled"
       THEN UNCHANGED <<restartPc, lastError>>
       ELSE restartPc' = "queued" /\ lastError' = err
    /\ timeoutRun' = IF TimeoutError(err) THEN Min(timeoutRun + 1, 3) ELSE 0
    /\ escalated' = FALSE
    /\ UNCHANGED <<battery_future, stop_event, consecutive_timeouts>>
    /\ RestartFrame

\* scheduled_renogy_reader starts the next client when the interval is over
\* and no client is running.
ScheduledStart ==
    /\ renogy_poll_mode = "scheduled"
    /\ ~stop_event
    /\ doneCb = "none"
    /\ ~FutureBusy(battery_future)
    /\ battery_future' = "pending"
    /\ UNCHANGED <<stop_event, consecutive_timeouts, lastError, doneCb, restartPc, timeoutRun,
                   escalated>>
    /\ RestartFrame

\* _restart_battery_client from the lock to the cooldown sleep: the timeout
\* is counted, any other exit clears the count.
RestartCount ==
    /\ restartPc = "queued"
    /\ IF stop_event \/ battery_stopping
       THEN /\ restartPc' = "none"
            /\ UNCHANGED consecutive_timeouts
       ELSE /\ restartPc' = "cooldown"
            /\ consecutive_timeouts' =
                   IF TimeoutError(lastError) THEN Min(consecutive_timeouts + 1, 3) ELSE 0
    /\ UNCHANGED <<battery_future, stop_event, lastError, doneCb, timeoutRun, escalated>>
    /\ RestartFrame

\* After the cooldown: the adapter is power-cycled and the task sleeps 5 s,
\* or it sleeps 2 s.
RestartDecide ==
    /\ restartPc = "cooldown"
    /\ escalated' = ShouldPowerCycle(TimeoutError(lastError), consecutive_timeouts)
    /\ restartPc' = IF escalated' THEN "power_cycle" ELSE "settle"
    /\ UNCHANGED <<battery_future, stop_event, consecutive_timeouts, lastError, doneCb,
                   timeoutRun>>
    /\ RestartFrame

\* The sleep is over: unless the service is stopping, start_battery_client
\* runs the next client.
RestartStart ==
    /\ restartPc \in {"power_cycle", "settle"}
    /\ restartPc' = "none"
    /\ battery_future' =
           IF stop_event \/ battery_stopping \/ FutureBusy(battery_future)
           THEN battery_future ELSE "pending"
    /\ UNCHANGED <<stop_event, consecutive_timeouts, lastError, doneCb, timeoutRun, escalated>>
    /\ RestartFrame

NextRestart ==
    \/ ExecutorExit
    \/ \E err \in ClientErrors : DoneCallback(err)
    \/ ScheduledStart
    \/ RestartCount
    \/ RestartDecide
    \/ RestartStart
    \/ SignalStop

\* ========================================================================
\* run_proxy: monitor_scanner_health
\* ========================================================================

\* health_check_threshold in ticks of the model's clock.
ThresholdTicks == 2

\* The largest health_reset_limit the configurations take.
MaxResetLimit == 2

\* Consecutive violating checks are counted up to here.
MaxStreak == 4

HealthConfigs == [reset_adapter : BOOLEAN, reset_limit : 0..MaxResetLimit]

NoHealthEvent ==
    [violation |-> FALSE, streak |-> 0, kick |-> FALSE, power_cycle |-> FALSE, resetsBefore |-> 0]

HealthConfigured(cfg) ==
    /\ healthCfg = cfg
    /\ warnings = 0
    /\ resets = 0
    /\ advGap = 0
    /\ healthPc = "sleep"
    /\ healthEvent = NoHealthEvent

HealthIdle == HealthConfigured([reset_adapter |-> TRUE, reset_limit |-> 0])

HealthFrame ==
    UNCHANGED <<pollVars, advVars, senVars, codecVars, readVars, escVars, winVars, phase,
                section, cycles, resume_handle, window_handle, prompt>>

\* gap > health_threshold
Violation(gap) == gap > ThresholdTicks

\* A monitor that asks for the power cycle on the third violation in a row.
EscalatesAtThird(cfg, w) == cfg.reset_adapter /\ w >= 3

\* health_reset_adapter and warnings >= 2
Escalates(cfg, w) == cfg.reset_adapter /\ w >= 2

\* resets < max(1, health_reset_limit)
ResetAllowed(cfg, r) == r < (IF cfg.reset_limit > 1 THEN cfg.reset_limit ELSE 1)

\* on_ble_advertisement / register_advertisement_sender: last_adv_timestamp = loop.time()
AdvertisementSeen ==
    /\ advGap' = 0
    /\ UNCHANGED <<healthCfg, warnings, resets, healthPc, healthEvent, supVars, queue>>
    /\ HealthFrame

\* A tick of the clock with no advertisement.
HealthTick ==
    /\ advGap <= ThresholdTicks
    /\ advGap' = advGap + 1
    /\ UNCHANGED <<healthCfg, warnings, resets, healthPc, healthEvent, supVars, queue>>
    /\ HealthFrame

\* One pass of monitor_scanner_health's loop after its sleep, up to the await
\* of the power cycle.  kick_from_thread and resume_window hand their work to
\* the loop the monitor runs on: _schedule_resume runs first, then the body
\* of the _kick task.
HealthCheck ==
    /\ healthPc = "sleep"
    /\ ~stop_event
    /\ queue = <<>>
    /\ IF ~Violation(advGap)
       THEN /\ warnings' = 0
            /\ healthEvent' = NoHealthEvent
            /\ UNCHANGED <<resets, healthPc, queue>>
       ELSE LET w == warnings + 1
                cycle == Escalates(healthCfg, w) /\ ResetAllowed(healthCfg, resets)
            IN  /\ queue' = <<"schedule_resume", "kick">>
                /\ resets' = IF cycle THEN resets + 1 ELSE resets
                /\ healthPc' = IF cycle THEN "power_cycle" ELSE "sleep"
                /\ warnings' = IF Escalates(healthCfg, w) /\ ~cycle THEN 0
                               ELSE Min(w, MaxStreak)
                /\ healthEvent' = [violation |-> TRUE,
                                   streak |-> Min(healthEvent.streak + 1, MaxStreak),
                                   kick |-> TRUE,
                                   power_cycle |-> cycle,
                                   resetsBefore |-> resets]
    /\ UNCHANGED <<healthCfg, advGap, supVars>>
    /\ HealthFrame

\* _power_cycle_adapter returns or raises (the error is logged); warnings = 0.
HealthPowerCycleDone ==
    /\ healthPc = "power_cycle"
    /\ healthPc' = "sleep"
    /\ warnings' = 0
    /\ UNCHANGED <<healthCfg, resets, advGap, healthEvent, supVars, queue>>
    /\ HealthFrame

\* The submitted supervisor._kick coroutine runs.
KickCoroutine(outStop, outStart) ==
    /\ queue # <<>> /\ Head(queue) = "kick"
    /\ queue' = Tail(queue)
    /\ sup' = KickEffect(sup, outStop, outStart)
    /\ lastOp' = Note("kick", StopNote(sup, outStop), KickStartNote(sup, outStop, outStart))
    /\ stopFault' = (stopFault \/ StopRaised(sup, outStop))
    /\ startFault' = StartFaultNext
    /\ fifo' = FifoNext("kick", "other", sup)
    /\ UNCHANGED <<dutyTask, dutyOn, shutPc, started, healthVars>>
    /\ HealthFrame

NextHealth ==
    \/ AdvertisementSeen
    \/ HealthTick
    \/ HealthCheck
    \/ HealthPowerCycleDone
    \/ \E outStop \in StopOutcomes, outStart \in StartOutcomes : KickCoroutine(outStop, outStart)
    \/ ScheduleResume
    \/ ResumeTimerFire
    \/ WindowTimerFire
    \/ \E out \in CycleOutcomes : PauseCoroutine(out)
    \/ \E out \in CycleOutcomes : ResumeCoroutine(out)

\* ========================================================================
\* The resume window of AirtimeScheduler and the gated scheduled reader
\* ========================================================================

\* airtime_window_seconds, the fallback of its option.
AirtimeWindowSeconds == 3

\* poll_cycle_dwell_seconds, the fallback of its option.
PollCycleDwellSeconds == 1

WindowIdle ==
    /\ client = "idle"
    /\ sinceMark = 0
    /\ windowAge = 0
    /\ dwellLeft = 0
    /\ windowDone = FALSE

WindowFrame ==
    UNCHANGED <<supRest, advVars, senVars, codecVars, readVars, escVars, healthVars, pollConfig,
                battery_client, battery_stopping, stop_event, consecutive_timeouts, lastError,
                activeRuns, doneCb, restartPc, mainPc, skips, sinceSkip, phase, section, cycles,
                queue, prompt>>

\* _await_poll_window after the gate: the remainder of the dwell counted from
\* last_proxy_cycle_time when the event was found set, the whole dwell after
\* a timeout.
DwellSleep(event_triggered, elapsed) ==
    IF ~event_triggered THEN PollCycleDwellSeconds
    ELSE IF elapsed < PollCycleDwellSeconds THEN PollCycleDwellSeconds - elapsed
    ELSE 0

\* The reader at the top of its loop, _await_poll_window up to its first await.
WindowEnter ==
    /\ EnterWindow
    /\ dwellLeft' = IF readerPc' = "dwell" THEN DwellSleep(TRUE, sinceMark) ELSE 0

\* The reader task's first run.
WindowReaderBegin ==
    /\ readerPc = "created"
    /\ WindowEnter
    /\ pollOp' = "other"
    /\ UNCHANGED <<sup, resume_handle, window_handle, battery_future, sinceRead, lastPoll, client,
                   sinceMark, windowAge, windowDone>>
    /\ WindowFrame

\* wait_for returns because the event was set: it is cleared.
WindowWaitSignal ==
    /\ readerPc = "wait"
    /\ poll_cycle_event
    /\ poll_cycle_event' = FALSE
    /\ gate' = Strongest(evBy)
    /\ evBy' = {}
    /\ readerPc' = "dwell"
    /\ dwellLeft' = DwellSleep(TRUE, sinceMark)
    /\ pollOp' = "other"
    /\ UNCHANGED <<sup, resume_handle, window_handle, battery_future, sinceRead, waited, lastPoll,
                   client, sinceMark, windowAge, windowDone>>
    /\ WindowFrame

\* wait_for raises TimeoutError: the reader calls _mark_proxy_cycle itself.
WindowWaitTimeout ==
    /\ readerPc = "wait"
    /\ ~poll_cycle_event
    /\ WaitExpired(waited)
    /\ poll_cycle_event' = TRUE
    /\ gate' = "timeout"
    /\ evBy' = {"timeout_mark"}
    /\ sinceMark' = 0
    /\ readerPc' = "dwell"
    /\ dwellLeft' = DwellSleep(FALSE, 0)
    /\ pollOp' = "other"
    /\ UNCHANGED <<sup, resume_handle, window_handle, battery_future, sinceRead, waited, lastPoll,
                   client, windowAge, windowDone>>
    /\ WindowFrame

\* The dwell sleep is over; the minimum-interval sleep begins.
WindowDwellDone ==
    /\ readerPc = "dwell"
    /\ dwellLeft = 0
    /\ readerPc' = "interval"
    /\ pollOp' = "other"
    /\ UNCHANGED <<sup, resume_handle, window_handle, battery_future, sinceRead, gateVars,
                   lastPoll, winVars>>
    /\ WindowFrame

\* _await_poll_window has returned: the fire is skipped while the previous
\* read is running, otherwise start_battery_client runs the client.
WindowFire ==
    /\ readerPc = "interval"
    /\ IntervalElapsed(sinceRead)
    /\ IF FutureBusy(battery_future)
       THEN /\ readerPc' = "skipsleep"
            /\ pollOp' = "skip"
            /\ UNCHANGED <<battery_future, sinceRead, gateVars, lastPoll, client, dwellLeft>>
       ELSE /\ battery_future' = "pending"
            /\ sinceRead' = 0
            /\ client' = "started"
            /\ pollOp' = "start"
            /\ lastPoll' = [gate |-> gate, skips |-> skips]
            /\ WindowEnter
    /\ UNCHANGED <<sup, resume_handle, window_handle, sinceMark, windowAge, windowDone>>
    /\ WindowFrame

\* The one-second sleep after a skipped fire is over.
WindowSkipDone ==
    /\ readerPc = "skipsleep"
    /\ WindowEnter
    /\ pollOp' = "other"
    /\ UNCHANGED <<sup, resume_handle, window_handle, battery_future, sinceRead, lastPoll, client,
                   sinceMark, windowAge, windowDone>>
    /\ WindowFrame

\* BaseClient.connect announces "discover": _apply_pause cancels the window
\* timer and pauses the supervisor.
WindowClientActive(out) ==
    /\ client = "started"
    /\ sup.pause_tokens < MaxTokens
    /\ client' = "busy"
    /\ window_handle' = FALSE
    /\ sup' = PauseEffect(sup, out)
    /\ pollOp' = "other"
    /\ UNCHANGED <<resume_handle, battery_future, sinceRead, gateVars, readerPc, lastPoll,
                   sinceMark, windowAge, dwellLeft, windowDone>>
    /\ WindowFrame

\* The client signals done (a finally block of connect, a notification or
\* the read timeout): _schedule_resume cancels the window timer and arms the
\* settle timer unless one is pending.  `last` is the final signal of the cycle.
WindowClientDone(last) ==
    /\ client = "busy"
    /\ client' = IF last THEN "finished" ELSE "busy"
    /\ window_handle' = FALSE
    /\ resume_handle' = TRUE
    /\ pollOp' = "other"
    /\ UNCHANGED <<sup, battery_future, sinceRead, gateVars, readerPc, lastPoll, sinceMark,
                   windowAge, dwellLeft, windowDone>>
    /\ WindowFrame

\* run_client returns; in scheduled mode the done callback only logs.
WindowClientExit ==
    /\ client = "finished"
    /\ client' = "idle"
    /\ battery_future' = "done"
    /\ pollOp' = "other"
    /\ UNCHANGED <<sup, resume_handle, window_handle, sinceRead, gateVars, readerPc, lastPoll,
                   sinceMark, windowAge, dwellLeft, windowDone>>
    /\ WindowFrame

\* The settle timer fires, _do_resume: the supervisor's resume, the cycle
\* callback _mark_proxy_cycle, and the window timer.
DoResume(out) ==
    /\ resume_handle
    /\ resume_handle' = FALSE
    /\ sup' = ResumeEffect(sup, out)
    /\ poll_cycle_event' = TRUE
    /\ evBy' = evBy \cup {"coordinator"}
    /\ sinceMark' = 0
    /\ window_handle' = TRUE
    /\ windowAge' = 0
    /\ windowDone' = FALSE
    /\ pollOp' = "other"
    /\ UNCHANGED <<battery_future, sinceRead, gate, waited, readerPc, lastPoll, client, dwellLeft>>
    /\ WindowFrame

\* The window timer fires, _pause_window: pause("airtime-window").
PauseWindow(out) ==
    /\ window_handle
    /\ windowAge >= AirtimeWindowSeconds
    /\ sup.pause_tokens < MaxTokens
    /\ window_handle' = FALSE
    /\ sup' = PauseEffect(sup, out)
    /\ windowDone' = TRUE
    /\ pollOp' = "other"
    /\ UNCHANGED <<resume_handle, battery_future, sinceRead, gateVars, readerPc, lastPoll, client,
                   sinceMark, windowAge, dwellLeft>>
    /\ WindowFrame

\* One second of loop.time(); a timer that is due fires first.
WindowTick ==
    /\ ~(window_handle /\ windowAge >= AirtimeWindowSeconds)
    /\ ~(readerPc = "wait" /\ WaitExpired(waited))
    /\ \/ sinceRead < IntervalTicks
       \/ readerPc = "wait"
       \/ readerPc = "dwell" /\ dwellLeft > 0
       \/ window_handle
       \/ sinceMark < PollCycleDwellSeconds
    /\ sinceRead' = Min(sinceRead + 1, IntervalTicks)
    /\ waited' = IF readerPc = "wait" THEN Min(waited + 1, TimeoutTicks) ELSE waited
    /\ dwellLeft' = IF dwellLeft > 0 THEN dwellLeft - 1 ELSE 0
    /\ windowAge' = IF window_handle THEN Min(windowAge + 1, AirtimeWindowSeconds) ELSE windowAge
    /\ sinceMark' = Min(sinceMark + 1, PollCycleDwellSeconds)
    /\ pollOp' = "other"
    /\ UNCHANGED <<sup, resume_handle, window_handle, battery_future, poll_cycle_event, evBy, gate,
                   readerPc, lastPoll, client, windowDone>>
    /\ WindowFrame

\* read_section finds the link down: "reconnect" is announced and
\* BLEManager.connect begins; _apply_pause cancels the window timer, keeps a
\* pending settle timer, and pauses the supervisor.
WindowClientReconnect(out) ==
    /\ client = "busy"
    /\ sup.pause_tokens < MaxTokens
    /\ client' = "reconnect"
    /\ window_handle' = FALSE
    /\ sup' = PauseEffect(sup, out)
    /\ pollOp' = "other"
    /\ UNCHANGED <<resume_handle, battery_future, sinceRead, gateVars, readerPc, lastPoll,
                   sinceMark, windowAge, dwellLeft, windowDone>>
    /\ WindowFrame

\* The reconnect attempt is over: the finally block releases "reconnect".
WindowClientReconnected ==
    /\ client = "reconnect"
    /\ client' = "busy"
    /\ window_handle' = FALSE
    /\ resume_handle' = TRUE
    /\ pollOp' = "other"
    /\ UNCHANGED <<sup, battery_future, sinceRead, gateVars, readerPc, lastPoll, sinceMark,
                   windowAge, dwellLeft, windowDone>>
    /\ WindowFrame

NextWindow ==
    \/ WindowReaderBegin
    \/ WindowWaitSignal
    \/ WindowWaitTimeout
    \/ WindowDwellDone
    \/ WindowFire
    \/ WindowSkipDone
    \/ \E out \in CycleOutcomes : WindowClientActive(out)
    \/ \E last \in BOOLEAN : WindowClientDone(last)
    \/ WindowClientExit
    \/ \E out \in CycleOutcomes : DoResume(out)
    \/ \E out \in CycleOutcomes : PauseWindow(out)
    \/ WindowTick

\* ------------------------------------------------------------------------
\* Specifications
\* ------------------------------------------------------------------------

SupIdle ==
    /\ dutyTask = "none"
    /\ shutPc = "idle"
    /\ lastOp = [op |-> "init", was |-> 0, stop |-> "skipped", start |-> "skipped"]
    /\ stopFault = FALSE
    /\ startFault = FALSE
    /\ fifo = 0

\* The supervisor as constructed, before start().
Init ==
    /\ sup = SupervisorInit
    /\ dutyOn \in BOOLEAN
    /\ started = FALSE
    /\ SupIdle
    /\ PollIdle
    /\ CycleIdle
    /\ AdvIdle
    /\ SensorsIdle
    /\ CodecIdle
    /\ ReadIdle
    /\ EscIdle
    /\ HealthIdle
    /\ WindowIdle

Next ==
    \/ \E out \in StartOutcomes : Start(out)
    \/ \E out \in StartOutcomes : EnsureRunning(out)
    \/ \E r \in Reasons, out \in StopOutcomes : Pause(r, out)
    \/ \E r \in Reasons, out \in StartOutcomes : Resume(r, out)
    \/ \E o1 \in StopOutcomes, o2 \in StartOutcomes : Kick(o1, o2)
    \/ \E out \in StopOutcomes : DutyPause(out)
    \/ \E out \in StartOutcomes : DutyResume(out)
    \/ \E out \in StartOutcomes : RetryFire(out)
    \/ ShutdownBegin
    \/ \E out \in StopOutcomes : ShutdownStop(out)

Spec == Init /\ [][Next]_vars

\* The retry timer fires (loop.call_later), and the adapter is ready at some
\* firing of it.
SpecRetryFair == Spec /\ WF_vars(RetryFire("ok"))

\* run_proxy from the creation of the reader task on.
InitPoll ==
    /\ sup = SupervisorInit
    /\ dutyOn = FALSE
    /\ started = FALSE
    /\ SupIdle
    /\ PollInit
    /\ CycleIdle
    /\ AdvIdle
    /\ SensorsIdle
    /\ CodecIdle
    /\ ReadIdle
    /\ EscIdle
    /\ HealthIdle
    /\ WindowIdle

SpecPoll == InitPoll /\ [][NextPoll]_vars

\* The event loop runs a reader task that is ready, and time passes.
SpecPollFair == SpecPoll /\ WF_vars(ReaderNext) /\ WF_vars(Tick)

\* The supervisor started and scanning, no duty cycle, no cycle yet.
InitCycle ==
    /\ sup = [SupervisorInit EXCEPT !.running = TRUE]
    /\ dutyOn = FALSE
    /\ started = TRUE
    /\ SupIdle
    /\ PollIdle
    /\ CycleIdle
    /\ AdvIdle
    /\ SensorsIdle
    /\ CodecIdle
    /\ ReadIdle
    /\ EscIdle
    /\ HealthIdle
    /\ WindowIdle

SpecCycle == InitCycle /\ [][NextCycle]_vars

\* The API server listening, no connection yet.
InitAdv ==
    /\ sup = SupervisorInit
    /\ dutyOn = FALSE
    /\ started = FALSE
    /\ SupIdle
    /\ PollIdle
    /\ CycleIdle
    /\ AdvIdle
    /\ SensorsIdle
    /\ CodecIdle
    /\ ReadIdle
    /\ EscIdle
    /\ HealthIdle
    /\ WindowIdle

SpecAdv == InitAdv /\ [][NextAdv]_vars

\* The API server of either program listening, no connection yet, no reading
\* yet.
InitSensors ==
    /\ sup = SupervisorInit
    /\ dutyOn = FALSE
    /\ started = FALSE
    /\ SupIdle
    /\ PollIdle
    /\ CycleIdle
    /\ AdvIdle
    /\ CodecIdle
    /\ ReadIdle
    /\ EscIdle
    /\ HealthIdle
    /\ WindowIdle
    /\ \E o \in Owners : SensorsConfigured(o)

SpecSensors == InitSensors /\ [][NextSensors]_vars

\* The advertisement path alone: sessions come, subscribe, unsubscribe and
\* go while advertisements arrive.
NextForward ==
    \/ \E s \in Sessions : Connect(s)
    \/ \E s \in Sessions : SubscribeBLE(s)
    \/ \E s \in Sessions : UnsubscribeBLE(s)
    \/ \E s \in Sessions : ConnectionLost(s)
    \/ \E name \in AdvNames : OnBleAdvertisement(name)

SpecForward == InitAdv /\ [][NextForward]_vars

\* The life of the sessions of unified_proxy's server: they connect,
\* subscribe to advertisements and to states, are closed by the server or
\* lost, while advertisements and readings arrive.
\* Advertisements of one ordinary device, and readings in which both
\* batteries report the same value.
SessionAdvNames == {<<"B", "T", "-", "1">>}
SessionReadings == {data \in UnifiedReadings : data[1].value = data[2].value}

NextSessions ==
    \/ \E s \in Sessions : Connect(s)
    \/ \E s \in Sessions : SubscribeBLE(s)
    \/ \E s \in Sessions : SubscribeStates(s)
    \/ \E s \in Sessions : BadPreamble(s)
    \/ \E s \in Sessions : ConnectionLost(s)
    \/ \E name \in SessionAdvNames : OnBleAdvertisement(name)
    \/ \E data \in SessionReadings : OnRenogyData(data)

InitSessions == InitSensors /\ owner = "unified_proxy"

SpecSessions == InitSessions /\ [][NextSessions]_vars

\* One connection on which the peer sends one frame, cut into TCP segments
\* in every possible way.
InitCodec ==
    /\ sup = SupervisorInit
    /\ dutyOn = FALSE
    /\ started = FALSE
    /\ SupIdle
    /\ PollIdle
    /\ CycleIdle
    /\ AdvIdle
    /\ SensorsIdle
    /\ ReadIdle
    /\ EscIdle
    /\ HealthIdle
    /\ WindowIdle
    /\ \E t \in MsgTypes, p \in Payloads : CodecConfigured([msg_type |-> t, payload |-> p])

SpecCodec == InitCodec /\ [][NextCodec]_vars

\* A client as constructed, under every configuration.
InitRead ==
    /\ sup = SupervisorInit
    /\ dutyOn = FALSE
    /\ started = FALSE
    /\ SupIdle
    /\ PollIdle
    /\ CycleIdle
    /\ AdvIdle
    /\ SensorsIdle
    /\ CodecIdle
    /\ EscIdle
    /\ HealthIdle
    /\ WindowIdle
    /\ \E cfg \in ReadConfigs : ReadConfigured(cfg)

SpecRead == InitRead /\ [][NextRead]_vars

\* run_proxy with its first battery client running, in either poll mode.
InitRestart ==
    /\ sup = SupervisorInit
    /\ dutyOn = FALSE
    /\ started = FALSE
    /\ SupIdle
    /\ CycleIdle
    /\ AdvIdle
    /\ SensorsIdle
    /\ CodecIdle
    /\ ReadIdle
    /\ EscIdle
    /\ HealthIdle
    /\ WindowIdle
    /\ \E mode \in PollModes : RestartConfigured(mode)

SpecRestart == InitRestart /\ [][NextRestart]_vars

\* The supervisor running, the health monitor asleep, under every configuration.
InitHealth ==
    /\ sup = [SupervisorInit EXCEPT !.running = TRUE]
    /\ dutyOn = FALSE
    /\ started = TRUE
    /\ SupIdle
    /\ PollIdle
    /\ CycleIdle
    /\ AdvIdle
    /\ SensorsIdle
    /\ CodecIdle
    /\ ReadIdle
    /\ EscIdle
    /\ \E cfg \in HealthConfigs : HealthConfigured(cfg)
    /\ WindowIdle

SpecHealth == InitHealth /\ [][NextHealth]_vars

\* run_proxy past its start-up in scheduled mode with poll_after_proxy_cycle:
\* the scanner running, the initial proxy-cycle marker set, the reader created.
InitWindow ==
    /\ sup = [SupervisorInit EXCEPT !.running = TRUE]
    /\ dutyOn = FALSE
    /\ started = TRUE
    /\ SupIdle
    /\ renogy_poll_mode = "scheduled"
    /\ poll_after_proxy_cycle = TRUE
    /\ battery_client = FALSE
    /\ battery_future = "none"
    /\ battery_stopping = FALSE
    /\ stop_event = FALSE
    /\ poll_cycle_event = TRUE
    /\ consecutive_timeouts = 0
    /\ lastError = "none"
    /\ activeRuns = 0
    /\ doneCb = "none"
    /\ readerPc = "created"
    /\ restartPc = "none"
    /\ mainPc = "running"
    /\ sinceRead = IntervalTicks
    /\ waited = 0
    /\ evBy = {"startup"}
    /\ gate = "none"
    /\ pollOp = "none"
    /\ lastPoll = [gate |-> "none", skips |-> 0]
    /\ skips = 0
    /\ sinceSkip = IntervalTicks
    /\ CycleIdle
    /\ AdvIdle
    /\ SensorsIdle
    /\ CodecIdle
    /\ ReadIdle
    /\ EscIdle
    /\ HealthIdle
    /\ WindowIdle

SpecWindow == InitWindow /\ [][NextWindow]_vars

\* The same, with a link that may be found down between two reads.
NextReconnect ==
    \/ NextWindow
    \/ \E out \in CycleOutcomes : WindowClientReconnect(out)
    \/ WindowClientReconnected

SpecReconnect == InitWindow /\ [][NextReconnect]_vars


\* ========================================================================
\* Claims checked under Spec (ScannerSupervisor)
\* ========================================================================

StepIs(op) == lastOp'.op = op

C5_AtMostOneCycle ==
    /\ activeRuns <= 1
    /\ (mainPc # "exited" /\ battery_future # "pending") => activeRuns = 0

\* C5 witness: a second run is active, started after the first one ended.
C5_Witness ==
    /\ activeRuns = 1 /\ battery_future = "pending"
    /\ renogy_poll_mode = "continuous" /\ consecutive_timeouts = 1 /\ restartPc = "none"

\* C6 (as stated): a fire that was skipped because a cycle was running is
\* dropped for good: the reader starts no cycle on its account once the
\* running cycle has ended, so a start never comes less than a read interval
\* after a skipped fire.
C6_SkippedFireNeverRuns ==
    [][ (readerPc = "interval" /\ pollOp' = "start") => sinceSkip = IntervalTicks ]_vars

\* C6 (amended): a scheduled fire that finds the previous cycle still running
\* starts no cycle at that moment and touches neither the future nor the
\* client; the reader looks again after its one-second sleep.  No backlog
\* builds up: every cycle the reader starts is started with no cycle running
\* and a full read interval after the previous start, however many fires
\* were skipped in between.
C6_DroppedNotQueued ==
    [][ /\ (readerPc = "interval" /\ readerPc' = "skipsleep") =>
             /\ activeRuns >= 1
             /\ UNCHANGED <<battery_client, battery_future, battery_stopping, activeRuns>>
        /\ (renogy_poll_mode = "scheduled" /\ activeRuns' > activeRuns) =>
             /\ activeRuns = 0
             /\ sinceRead = IntervalTicks
             /\ sinceRead' = 0
      ]_vars

\* C6 witness: fires were skipped twice during one cycle, and after it ended
\* the reader started the next cycle.
C6_Witness ==
    /\ pollOp = "start" /\ lastPoll.skips = 2
    /\ activeRuns = 1 /\ skips = 0

\* C8 (as stated): with poll_after_proxy_cycle set, a poll that does not ride
\* on the start-up marker fires only after the coordinator signalled a proxy
\* cycle since the reader last passed the gate, or after the cycle timeout
\* ran out in this wait.
C8_PollOnlyAfterSignal ==
    (pollOp = "start" /\ poll_after_proxy_cycle /\ lastPoll.gate # "startup") =>
        lastPoll.gate \in {"coordinator", "timeout"}

\* C9: a reader waiting at the proxy-cycle gate gets through it, through the
\* dwell and to its fire decision (unless shutdown ends the reader first),
\* even if the coordinator never signals: the timeout opens the gate.
C9_TimeoutFires ==
    /\ (readerPc = "wait") ~> (readerPc \in {"dwell", "ended"})
    /\ (readerPc = "dwell") ~> (readerPc \in {"interval", "ended"})
    /\ (readerPc = "interval" /\ poll_after_proxy_cycle) ~> (readerPc # "interval")

\* C9 witness: the reader passed the gate on the timeout alone and started a
\* cycle.
C9_Witness ==
    pollOp = "start" /\ lastPoll.gate = "timeout" /\ poll_after_proxy_cycle

\* ========================================================================
\* Claims checked under SpecCycle (Modbus cycle, airtime scheduler)
\* ========================================================================

\* C7 (as stated): while a cycle's discovery, connect or read is in progress
\* the supervisor holds a pause token and the scanner is not running; stated
\* for the main loop at its best, when it has run every callback the client
\* handed over, and had done so each time the client moved on.
C7_PausedThroughCycle ==
    (phase \in {"discover", "connect", "read"} /\ queue = <<>> /\ prompt) =>
        (sup.pause_tokens > 0 /\ ~sup.running)

\* ========================================================================
\* Claims checked under SpecAdv (API sessions)
\* ========================================================================

\* C10 (as stated): an advertisement handed on by on_ble_advertisement is
\* written to every open session whose advertisements flag is set.
C10_WrittenToEverySubscriber ==
    advEvent = "adv" =>
        \A s \in Sessions : (proto[s].ble /\ proto[s].transport = "open") => wire[s] # <<>>

\* C11 (as stated): a session that sent a frame with a non-zero preamble is
\* closed, and an advertisement that arrives afterwards is still written to
\* every other session that is open and subscribed, whichever of them
\* subscribed first.
C11_BadFrameIsolated ==
    /\ \A s \in Sessions : proto[s].fault => proto[s].transport \in {"closing", "lost"}
    /\ (advEvent = "adv" /\ \E s \in Sessions : proto[s].fault) =>
           \A t \in Sessions : (proto[t].transport = "open" /\ proto[t].ble) => wire[t] # <<>>

\* C12 (as stated): a frame with an unknown message type closes the session
\* that sent it.
C12_UnknownTypeCloses ==
    advEvent = "unknown_type" => proto[advSession].transport # "open"

\* C18 (as stated): the subscribing session is written one scanner state
\* response first and the synthetic advertisement (legacy and raw form) after
\* it.
C18_ScannerStateFirst ==
    advEvent = "subscribe" => wire[advSession] = <<"scanner_state", "adv_legacy", "adv_raw">>

\* C19 (as stated): a listing is served only to a session that has said
\* Hello, and a subscription only to a session that has said Hello and has
\* been given a listing.
C19_OrderedStates ==
    /\ advEvent = "list" => proto[advSession].hello
    /\ advEvent \in {"subscribe", "subscribe_states"} =>
           (proto[advSession].hello /\ proto[advSession].listed)

\* C20 (as stated, its part about sessions): once the server's stop has
\* returned, for the first or the second time, no session is open.
C20_StopClosesSessions ==
    serverPc = "stopped" => \A s \in Sessions : proto[s].transport # "open"

\* ========================================================================
\* Claims checked under SpecSensors (sensor entities and states)
\* ========================================================================

\* C13: on every session, an entity announced by a listing keeps its key:
\* a later listing announces it with the same key, and every sensor state
\* written for it carries that key.
C13_KeyStable ==
    \A s \in Sessions :
        /\ \A a, b \in proto[s].announced : a.entity_key = b.entity_key => a.key = b.key
        /\ \A i \in 1..Len(wire[s]) :
               wire[s][i].type = "state" =>
                   \A a \in proto[s].announced :
                       a.entity_key = wire[s][i].entity_key => a.key = wire[s][i].key

\* C13 witness: a sensor state is written to a session for an entity that a
\* listing had announced to it.
C13_Witness ==
    \E s \in Sessions : \E i \in 1..Len(wire[s]) :
        /\ wire[s][i].type = "state"
        /\ \E a \in proto[s].announced : a.entity_key = wire[s][i].entity_key

\* C14 (as stated): when a reading introduces entities that did not exist
\* before, no session that has been given a listing stays open.
C14_EnumeratedSessionsDisconnected ==
    advEvent = "introduce" => \A s \in Sessions : proto[s].listed => proto[s].transport # "open"

\* C15 (as stated): two entities of different unit ids, or a device entity
\* and a combined entity, never have the same key.
C15_KeysUnique ==
    \A a, b \in created :
        (a.entity_key.prefix # b.entity_key.prefix \/ a.entity_key.unit # b.entity_key.unit)
            => a.key # b.key

\* C16 (as stated): a reading writes a sensor state to every session whose
\* states flag is set, and to no other session.
C16_StatesToSubscribers ==
    advEvent \in {"reading", "introduce"} =>
        \A s \in Sessions :
            (proto[s].states /\ proto[s].transport = "open")
                <=> (\E i \in 1..Len(wire[s]) : wire[s][i].type = "state")

\* C17 (as stated): a sensor state is written for a key only if its value
\* differs from the value last written for that key, or the entity has
\* force_update set.
C17_PublishedOnlyOnChange ==
    [][ advEvent' \in {"reading", "introduce"} =>
            \A f \in FramesOf(wire') :
                f.type = "state" =>
                    \/ [key |-> f.key, state |-> f.state] \notin published
                    \/ \E i \in 1..Len(sensor_entities) :
                           sensor_entities[i].key = f.key /\ sensor_entities[i].force_update
      ]_vars


\* ========================================================================
\* Claims checked under SpecCodec (native-API framing)
\* ========================================================================

RECURSIVE VarintLen(_)
\* Bytes of the varint of value: one per group of seven bits.
VarintLen(value) == IF value < 128 THEN 1 ELSE 1 + VarintLen(value \div 128)

C22_SplitFrameDelivered ==
    /\ codecTransport = "open"
    /\ inbound # <<>> => packets = <<>>
    /\ inbound = <<>> =>
          /\ Len(packets) = 1
          /\ packets[1].msg_type = frame.msg_type
          /\ packets[1].payload = frame.payload

\* ========================================================================
\* Claims checked under SpecForward (advertisement filter)
\* ========================================================================

\* A name of the form hci<digits> (<hex digits and colons>).
HostAdapterName(name) ==
    \E i \in 5..Len(name) :
        /\ SubSeq(name, 1, 3) = <<"h", "c", "i">>
        /\ \A k \in 4..(i - 1) : name[k] \in Digits
        /\ name[i] = " "
        /\ Len(name) >= i + 3
        /\ name[i + 1] = "("
        /\ \A k \in (i + 2)..(Len(name) - 1) : name[k] \in HexDigits \cup {":"}
        /\ name[Len(name)] = ")"

C24_TimeoutContinues ==
    readEvent.op = "timeout" => (~rc.stopping /\ readEvent.moved_on)

\* C25: a response that is not a well-formed read response (wrong length, or
\* a function code other than 0x03) is a failure of its section: the parser
\* is skipped and the cycle moves on to the next section.
C25_IllFormedSkipsSection ==
    (readEvent.op = "response" /\ ~readEvent.well_formed) =>
        (~readEvent.parsed /\ readEvent.moved_on)

C26_ThreeTimeoutsEscalate ==
    /\ (timeoutRun = 3 /\ ~stop_event /\ doneCb = "none"
            /\ restartPc \notin {"queued", "cooldown"}) => escalated
    /\ (escalated /\ TimeoutError(lastError)) => timeoutRun = 3

C28_WindowBeforeGatedPoll ==
    /\ (pollOp = "start" /\ lastPoll.gate = "coordinator") => windowDone
    /\ (window_handle /\ sup.pause_tokens = 0) => sup.running

\* ========================================================================
\* Claims about the supervisor's counter and its start retry (Spec)
\* ========================================================================

\* C39: the pause-token counter is never negative, and a resume that finds
\* no token outstanding leaves the counter at 0, the running flag and the
\* rest of the supervisor as they were, and asks nothing of the scanner.
C39_NeverNegative ==
    [][ /\ sup'.pause_tokens >= 0
        /\ (StepIs("resume") /\ sup.pause_tokens = 0) =>
             (sup' = sup /\ lastOp'.start = "skipped")
      ]_vars

\* C39 witness: a resume found no token while the scanner was stopped by the
\* duty cycle, and the scanner is still stopped.
C39_Witness ==
    /\ lastOp.op = "resume" /\ lastOp.was = 0
    /\ sup.pause_tokens = 0 /\ ~sup.running /\ ~sup.shutdown /\ started

C31_BalancedAfterCycle ==
    (cycles > 0 /\ phase = "idle" /\ queue = <<>> /\ ~resume_handle /\ ~window_handle) =>
        (sup.pause_tokens = 0 /\ sup.running)

\* C32 (as stated): a pause issued while a settle timer of an earlier done
\* signal is pending is not undone by that timer: from the pause for
\* "reconnect" until its release the scanner is stopped.
C32_PauseNotUndone ==
    client = "reconnect" => ~sup.running

\* ========================================================================
\* Further claims about BaseClient's conversation (SpecRead)
\* ========================================================================

\* C33 (as stated): after any notification the client has advanced or
\* completed the cycle (a next read is due, or the last section was handled),
\* or it is stopping, or a read timeout is still armed.
C33_NeverWaitsForever ==
    readEvent.op = "response" =>
        (rc.readers > 0 \/ readEvent.moved_on \/ rc.stopping \/ rc.read_timeout = "armed")

\* C34 (as stated): in scheduled mode, when the answer to the last section of
\* the last configured unit id has been handled, the client is stopping (its
\* future is about to complete), with one unit id and with several.
C34_CycleEnds ==
    (readCfg.scheduled_mode /\ readEvent.op = "response" /\ readEvent.moved_on
         /\ readEvent.section = Len(Sections) - 1 /\ rc.device_index = 0)
        => rc.stopping

\* C35 (as stated): whenever a callback or task step of the main loop has
\* returned, no supervisor pause, resume or kick that it asked for through
\* pause_from_thread, resume_from_thread or kick_from_thread is still waiting
\* to run: the operation was completed before the helper returned.
C35_CompletedBeforeReturn ==
    \A i \in DOMAIN queue : queue[i] \notin {"pause", "resume", "kick"}

\* C36 (as stated): after a reading from which entities were created, the
\* server's registry holds every entity created so far; and a listing given
\* to a session, whenever it connected, is the listing of the server's
\* registry as it is at that moment.
C36_RegistryListed ==
    /\ (owner = "renogy_bt_proxy" /\ advEvent \in {"reading", "introduce"})
           => created \subseteq EntityKeys(sensor_entities)
    /\ \A s \in Sessions :
           (advEvent = "list" /\ advSession = s)
               => wire[s] = ListingOf(sensor_entities) \o <<[type |-> "list_done"]>>

=============================================================================
